---- MODULE Spec2Model ----
(***************************************************************************)
(* Kernel-thread concurrency core of sOS: the per-core Processor dispatch  *)
(* loop (src/src/sched/processor.rs), the thread API                       *)
(* (src/src/sched/std_thread.rs), the tick Timer                           *)
(* (src/src/arch/x86_64/timer.rs) and the multiprocessor bring-up          *)
(* (src/src/arch/x86_64/smp.rs).                                           *)
(*                                                                         *)
(* sched/thread_pool.rs and sched/rr.rs are not part of the source tree;   *)
(* the ThreadPool and the round-robin policy are modelled from sections 3  *)
(* and 4.4 of the specification: the operators named Pool.. and Sched..    *)
(*                                                                         *)
(* std_thread.rs leaves processor() and new_kernel_context() to the        *)
(* embedding kernel ("Please implement and export"): processor() is taken  *)
(* to be the Processor of the executing core, new_kernel_context() to      *)
(* build a Context that enters kernel_thread_entry.                        *)
(*                                                                         *)
(* An Option<T> of the source is a set with at most one element: {} is     *)
(* None and {x} is Some(x).                                                *)
(***************************************************************************)
EXTENDS Integers, Sequences, FiniteSets, TLC

\* ------------------------------------------------------------------ bounds
NCores == 2
MaxThreads == 3
SchedThreads == 2
MaxTick == 5
MaxSleep == 5
MaxResult == 2
MaxTries == 2
ScenarioThreads == 10
NAPs == 3
MaxReg == 2
MaxDepth == 2
NullAPs == 2
MaxScan == 2
QueueCap == 2

\* pub const MAX_CPUS: usize = 8
MAX_CPUS == 8

\* size_of::<usize>() on x86_64
WordSize == 8

\* dur_to_ticks: dur.as_secs() * 100 + dur.subsec_nanos() / 10_000_000
TicksPerSec == 100
NanosPerTick == 10000000

Cores == 1..NCores
MaxTid == IF ScenarioThreads > MaxThreads THEN ScenarioThreads ELSE MaxThreads
Tids == 1..MaxTid
Results == 1..MaxResult
SleepTicks == {1, MaxSleep}

APs == 1..NAPs

\* A core main does not start.
StrayAP == NAPs + 1
AllAPs == APs \cup {StrayAP}
CpuIds == 0..(MAX_CPUS - 1)

Range(s) == {s[i] : i \in DOMAIN s}

\* ------------------------------------------------------------------ Timer
\* Timer<T> { tick, timers: VecDeque<Event<T>> }, Event { time, data }.
TimerNew == [tick |-> 0, timers |-> <<>>]

TimerTick(tm) == [tm EXCEPT !.tick = @ + 1]

\* A faulty pop that hands out the front event whatever its time.
TimerPopAny(tm) ==
    IF tm.timers = <<>> THEN [timer |-> tm, ret |-> {}]
    ELSE [timer |-> [tm EXCEPT !.timers = Tail(@)],
          ret |-> {Head(tm.timers).data}]

\* pop: None when there is no event or the front event's time differs from
\* the current tick; otherwise the front event is removed and returned.
TimerPop(tm) ==
    IF tm.timers = <<>> THEN [timer |-> tm, ret |-> {}]
    ELSE IF Head(tm.timers).time # tm.tick THEN [timer |-> tm, ret |-> {}]
    ELSE [timer |-> [tm EXCEPT !.timers = Tail(@)],
          ret |-> {Head(tm.timers).data}]

\* A faulty loop that also passes the events whose time equals the new one's.
RECURSIVE StartIndexPast(_, _, _)
StartIndexPast(timers, time, i) ==
    IF i >= Len(timers) THEN i
    ELSE IF timers[i + 1].time > time THEN i
    ELSE StartIndexPast(timers, time, i + 1)

\* The index the loop of start stops at: the number of leading events whose
\* time is below the new event's time.
RECURSIVE StartIndex(_, _, _)
StartIndex(timers, time, i) ==
    IF i >= Len(timers) THEN i
    ELSE IF timers[i + 1].time >= time THEN i
    ELSE StartIndex(timers, time, i + 1)

TimerStart(tm, time_after, data) ==
    LET time == tm.tick + time_after
        event == [time |-> time, data |-> data]
        i == StartIndex(tm.timers, time, 0)
    IN [tm EXCEPT !.timers = SubSeq(@, 1, i) \o <<event>> \o SubSeq(@, i + 1, Len(@))]

\* stop: removes the first event carrying data, if there is one.
TimerStop(tm, data) ==
    LET hits == {i \in DOMAIN tm.timers : tm.timers[i].data = data}
    IN IF hits = {} THEN tm
       ELSE LET i == CHOOSE k \in hits : \A j \in hits : k <= j
            IN [tm EXCEPT !.timers = SubSeq(@, 1, i - 1) \o SubSeq(@, i + 1, Len(@))]

\* ------------------------------------------------------------- RingBuffer
\* RingBuffer { buffer: [Option<char>; KEYBUFFER_SIZE], head, tail }; the
\* source has KEYBUFFER_SIZE = 128 (interrupts.rs) and 1024 (task/keyboard.rs).
KEYBUFFER_SIZE == 4

RingNew == [buffer |-> [i \in 0..(KEYBUFFER_SIZE - 1) |-> {}],
            head |-> 0, tail |-> 0]

\* A faulty push that stores the character whether or not there is room.
RingPushOver(rb, c) ==
    LET next == (rb.head + 1) % KEYBUFFER_SIZE
    IN [rb EXCEPT !.buffer[rb.head] = {c}, !.head = next]

\* push: the character goes to buffer[head] and head advances, unless that
\* would make head equal to tail.
RingPush(rb, c) ==
    LET next == (rb.head + 1) % KEYBUFFER_SIZE
    IN IF next # rb.tail
         THEN [rb EXCEPT !.buffer[rb.head] = {c}, !.head = next]
         ELSE rb

\* pop: None when head = tail; otherwise buffer[tail] is taken, the slot set
\* to None and tail advances.
RingPop(rb) ==
    IF rb.head = rb.tail THEN [ring |-> rb, ret |-> {}]
    ELSE [ring |-> [rb EXCEPT !.buffer[rb.tail] = {},
                              !.tail = (rb.tail + 1) % KEYBUFFER_SIZE],
          ret |-> rb.buffer[rb.tail]]

\* --------------------------------------------------------- ThreadPool (spec)
\* ThreadInfo { tid, context: Option<Context>, state }; ctx is TRUE while the
\* pool owns the suspended Context.  A dispatched thread keeps the state it
\* had and is off the ready structure with its Context moved out.
NoThread == [state |-> "None", ctx |-> FALSE, result |-> {},
             waiter |-> {}, detached |-> FALSE]

PoolNew == [threads |-> [t \in Tids |-> NoThread], ready |-> <<>>,
            timer |-> TimerNew, next |-> 1]

\* Round-robin policy: push files a tid behind every queued one, pop hands
\* out the one queued longest.
SchedPush(q, tid) == Append(q, tid)

\* A faulty pop that hands out the tid queued last.
SchedPopLast(q) == [ready |-> SubSeq(q, 1, Len(q) - 1), ret |-> {q[Len(q)]}]

SchedPop(q) == [ready |-> Tail(q), ret |-> {Head(q)}]

\* A faulty add that hands out the lowest Tid whose entry is free.
PoolAddReuse(p) ==
    LET tid == CHOOSE t \in Tids : /\ p.threads[t].state = "None"
                                    /\ \A u \in Tids : p.threads[u].state = "None" => t <= u
    IN [pool |-> [p EXCEPT !.threads[tid] = [NoThread EXCEPT !.state = "Ready", !.ctx = TRUE],
                           !.ready = SchedPush(@, tid),
                           !.next = @ + 1],
        tid |-> tid]

\* add(context) -> Tid: a fresh Tid, above every Tid handed out before,
\* recorded Ready.
PoolAdd(p) ==
    [pool |-> [p EXCEPT !.threads[p.next] = [NoThread EXCEPT !.state = "Ready", !.ctx = TRUE],
                        !.ready = SchedPush(@, p.next),
                        !.next = @ + 1],
     tid |-> p.next]

\* run(core_id) -> Option<(Tid, Context)>.
PoolRun(p) ==
    IF p.ready = <<>> THEN [pool |-> p, ret |-> {}]
    ELSE LET r == SchedPop(p.ready)
             tid == CHOOSE t \in r.ret : TRUE
         IN [pool |-> [p EXCEPT !.ready = r.ready, !.threads[tid].ctx = FALSE],
             ret |-> r.ret]

\* wakeup(tid): Sleeping -> Ready whatever the wake condition; the thread is
\* queued at once when the pool holds its Context, else by stop.
PoolWakeup(p, tid) ==
    IF p.threads[tid].state # "Sleeping" THEN p
    ELSE [p EXCEPT !.threads[tid].state = "Ready",
                   !.timer = TimerStop(@, tid),
                   !.ready = IF p.threads[tid].ctx THEN SchedPush(@, tid) ELSE @]

\* stop(tid, context): the recorded state decides where the Context goes.
PoolStop(p, tid) ==
    LET st == p.threads[tid].state
    IN IF st = "Ready"
         THEN [p EXCEPT !.threads[tid].ctx = TRUE, !.ready = SchedPush(@, tid)]
       ELSE IF st = "Sleeping"
         THEN [p EXCEPT !.threads[tid].ctx = TRUE]
       ELSE p

\* sleep(tid, ticks): Ready -> Sleeping; ticks = 0 is an indefinite park.
PoolSleep(p, tid, ticks) ==
    IF p.threads[tid].state # "Ready" THEN p
    ELSE [p EXCEPT !.threads[tid].state = "Sleeping",
                   !.timer = IF ticks # 0 THEN TimerStart(@, ticks, tid) ELSE @]

\* exit(tid, result): the result is retained until collected, unless the
\* thread was detached; a registered waiter is woken.
PoolExit(p, tid, result) ==
    LET th == p.threads[tid]
        q == [p EXCEPT !.threads[tid] =
                 IF th.detached THEN NoThread
                 ELSE [th EXCEPT !.state = "Exited", !.result = {result},
                                 !.ctx = FALSE, !.waiter = {}],
                 !.timer = TimerStop(@, tid)]
    IN IF th.state \notin {"Ready", "Sleeping"} THEN p
       ELSE IF th.waiter = {} THEN q
       ELSE PoolWakeup(q, CHOOSE w \in th.waiter : TRUE)

\* A faulty try_remove that returns the result and keeps the entry.
PoolTryRemoveKeep(p, tid) ==
    IF p.threads[tid].state = "Exited"
      THEN [pool |-> p, ret |-> p.threads[tid].result]
    ELSE [pool |-> p, ret |-> {}]

\* try_remove(tid) -> Option<result>.
PoolTryRemove(p, tid) ==
    IF p.threads[tid].state = "Exited"
      THEN [pool |-> [p EXCEPT !.threads[tid] = NoThread],
            ret |-> p.threads[tid].result]
    ELSE [pool |-> p, ret |-> {}]

\* wait(waiting_tid, target_tid): registers the thread to wake at exit.
PoolWait(p, waiting, target) ==
    IF p.threads[target].state = "None" THEN p
    ELSE [p EXCEPT !.threads[target].waiter = {waiting}]

\* detach(tid): nobody will join tid.
PoolDetach(p, tid) ==
    IF p.threads[tid].state = "None" THEN p
    ELSE IF p.threads[tid].state = "Exited"
      THEN [p EXCEPT !.threads[tid] = NoThread]
    ELSE [p EXCEPT !.threads[tid].detached = TRUE]

\* One pool-observed tick: the timer advances and every event that is due
\* wakes its thread.
RECURSIVE PoolDrain(_)
PoolDrain(p) ==
    LET r == TimerPop(p.timer)
    IN IF r.ret = {} THEN p
       ELSE PoolDrain(PoolWakeup([p EXCEPT !.timer = r.timer],
                                 CHOOSE t \in r.ret : TRUE))

PoolTick(p) == PoolDrain([p EXCEPT !.timer = TimerTick(@)])

\* ------------------------------------------------------------------ state
VARIABLES
    pool,      \* the ThreadPool shared by every core
    thread,    \* ProcessorInner.thread of each core: the running (tid, context)
    cur,       \* the thread whose code a core executes; {} in the dispatch loop
    pc,        \* where the code on a core stands
    saved,     \* where a thread's saved RawContext resumes
    jt,        \* JoinHandle::join's self.thread.tid on each core
    handle,    \* JoinHandle of each tid: "none", "held", "joining", "joined", "dropped"
    owner,     \* the thread holding a tid's JoinHandle; {} is the boot code
    nthreads,  \* how many threads the run spawns
    watch,     \* the optional histories the run records: "rr", "tid", "park", "sleep"
    hist       \* history of the run, read by the properties only

\* The statics of the bring-up and the position of the boot processor and of
\* each application processor.
VARIABLES
    AP_STARTUP,              \* the one ApStartupData block every AP reads
    GLOBAL_THREAD_POOL_PTR,  \* TRUE when not null
    PROCESSORS_PTR,          \* TRUE when not null
    CPUS,                    \* the CpuInfo array
    bsp,                     \* the boot processor inside main's start_one_ap calls,
                             \* and the IPIs it has written to the local APIC
    ap                       \* each AP: where it stands and the locals it loaded

schedVars == <<pool, thread, cur, pc, saved, jt, handle, owner, nthreads, watch, hist>>

smpVars == <<AP_STARTUP, GLOBAL_THREAD_POOL_PTR, PROCESSORS_PTR, CPUS, bsp, ap>>

\* One core around a pair of ctx_switch calls.
VARIABLES
    cpuRegs,   \* the core's callee-saved registers and stack pointer
    rawCtx,    \* the RawContext of each ContextImpl
    stackMem,  \* the stack words written: address -> return address (a label)
    ip,        \* where the core executes, and the arguments of ctx_switch
    heldRegs   \* history: the registers at entry to the first ctx_switch

ctxVars == <<cpuRegs, rawCtx, stackMem, ip, heldRegs>>

\* The mutual-exclusion lock that serializes every access to the ThreadPool.
VARIABLES
    lock,      \* the cores inside a ThreadPool call: at most one
    got        \* run_next's local on each core: what pool.run returned

lockVars == <<lock, got>>

\* The interrupt state of the machine.
VARIABLES
    ifl,        \* RFLAGS.IF of each core
    flags,      \* the flags no_interrupt stored for each thread inside yield_now
    isr,        \* the interrupt lines the PIC holds in service, awaiting EOI
    scancodes   \* SCANCODE_QUEUE

irqVars == <<ifl, flags, isr, scancodes>>

\* The state of the units that are exercised on their own.
VARIABLES
    tm,        \* a Timer<T>: tick and timers, the VecDeque of Event { time, data }
    tmLog      \* history: the events started, and what each pop returned

tmVars == <<tm, tmLog>>

VARIABLES
    WAKER,     \* the AtomicWaker of task/keyboard.rs
    task       \* the tasks calling read_line: where each stands in poll_next
               \* and whether its waker was woken; and the history of the
               \* scancodes

kbdVars == <<WAKER, task>>

VARIABLES
    KEYBUFFER, \* the RingBuffer behind the KEYBUFFER mutex
    keyLock,   \* who holds the KEYBUFFER mutex
    caller,    \* where wait_for_keypress stands
    handler,   \* where the keyboard interrupt handler of src/interrupts.rs stands
    ringLog    \* history: the characters a FIFO queue would hold, the last
               \* operation on the buffer and what it returned

ringVars == <<KEYBUFFER, keyLock, caller, handler, ringLog>>

VARIABLES
    ni,        \* for each thread, the flags stored by the no_interrupt calls
               \* it is inside of, other than the one of yield_now; innermost last
    niLog      \* history: for each thread, the flag stored by each call that
               \* returned and the flag the return left

niVars == <<ni, niLog>>

VARIABLES
    arc        \* the ArcInner of the ThreadPool: its strong count, and the
               \* number of references given away through Arc::into_raw

arcVars == <<arc>>

unitVars == <<tmVars, kbdVars, ringVars, niVars, arcVars>>

vars == <<schedVars, smpVars, ctxVars, lockVars, irqVars, unitVars>>

HistNew ==
    [dispatched |-> <<>>,                 \* the tids run() returned, in order, while
                                          \* no thread had re-entered the ready queue
     requeued |-> FALSE,                  \* a thread re-entered the ready queue
     ahead |-> [t \in Tids |-> {}],       \* Ready and not running when t was last
                                          \* dispatched, and not dispatched since
     overtook |-> [t \in Tids |-> {}],    \* ahead[t] when t was dispatched again
     yielded |-> [t \in Tids |-> FALSE],  \* t is inside a plain yield_now
     exitRec |-> [t \in Tids |-> {}],     \* the result exit(t, r) recorded
     joinRet |-> [t \in Tids |-> {}],     \* the value join returned for t
     tryLog |-> [t \in Tids |-> <<>>],    \* what each try_remove(t) returned
     exitAt |-> [t \in Tids |-> {}],      \* the number of try_remove(t) before exit
     sleepLeft |-> [t \in Tids |-> 0],    \* ticks of t's timed sleep still to pass:
                                          \* set by sleep, cleared by wakeup(t)
     timerWoke |-> {},                    \* <<t, n>>: the timer ended t's sleep of
                                          \* n ticks and t has not run since
     slept |-> [t \in Tids |-> {}],      \* the Duration of t's last std_thread::sleep
     asked |-> [t \in Tids |-> 0],        \* the ticks of t's timed sleep under way
     bodyRuns |-> [t \in Tids |-> 0],     \* how often t's closure was started
     issued |-> <<>>,                     \* the Tids add returned, in order
     gone |-> [t \in Tids |-> {}],        \* the Tids join or detach had removed
                                          \* when add returned t
     parked |-> [t \in Tids |-> "no"]]    \* "parked": t is inside park;
                                          \* "unparked": and unpark(t) was called

\* An AP before ap_trampoline_entry: nothing read, no Arc of the pool held,
\* no Processor initialised, no null pointer dereferenced.
ApOff(label) ==
    [pc |-> label, stack_top |-> 0, cpu_id |-> 0, apic_id |-> 0,
     pool |-> FALSE, processor |-> {}, deref_null |-> FALSE]

\* The bring-up state when main reaches its first start_one_ap: the statics
\* as initialised, CPUS.init() done, every AP not yet started; last is the
\* index of the last start_one_ap call to come.
SmpInitWith(last) ==
    /\ AP_STARTUP = [stack_top |-> 0, pml4_phys |-> 0, cpu_id |-> 0, apic_id |-> 0]
    /\ GLOBAL_THREAD_POOL_PTR = FALSE
    /\ PROCESSORS_PTR = FALSE
    /\ CPUS = [i \in CpuIds |-> [id |-> i, apic_id |-> 0, online |-> 0]]
    /\ bsp = [pc |-> "pointers", index |-> 1, last |-> last, icr |-> <<>>]
    /\ ap = [a \in AllAPs |-> ApOff("off")]

SmpInit == SmpInitWith(NAPs)

\* ------------------------------------------------------------ RawContext
RegNames == {"r15", "r14", "r13", "r12", "rbx", "rbp"}

RegVals == 0..MaxReg

\* const STACK_SIZE: usize = 16 * 1024
STACK_SIZE == 16 * 1024

\* Context A runs on a stack below StackBaseB; the stack of context B is the
\* boxed slice new_with_entry allocates.
StackBaseB == (MaxDepth + 2) * WordSize

RawOf(f, sp) == [r15 |-> f["r15"], r14 |-> f["r14"], r13 |-> f["r13"],
                 r12 |-> f["r12"], rbx |-> f["rbx"], rbp |-> f["rbp"], rsp |-> sp]

ZeroRegs == [r \in RegNames |-> 0]

\* A faulty new_with_entry whose saved stack pointer is the top of the stack.
NewWithEntryTop(base, stack_size, entry_fn) ==
    LET top == base + stack_size
    IN [raw |-> RawOf(ZeroRegs, top), at |-> top - WordSize, word |-> entry_fn]

\* ContextImpl::new_with_entry: the top word of the stack holds entry_fn and
\* the RawContext has rsp = top - size_of::<usize>() and zero registers.
NewWithEntry(base, stack_size, entry_fn) ==
    LET top == base + stack_size
        new_rsp == top - WordSize
    IN [raw |-> RawOf(ZeroRegs, new_rsp), at |-> new_rsp, word |-> entry_fn]

At(label) == [at |-> label, old |-> "-", new |-> "-"]

\* No ctx_switch under way: the state of the specifications that do not
\* follow the registers.
CtxIdle ==
    /\ cpuRegs = RawOf(ZeroRegs, StackBaseB - WordSize)
    /\ rawCtx = [c \in {"A", "B"} |-> RawOf(ZeroRegs, 0)]
    /\ stackMem = <<>>
    /\ ip = At("idle")
    /\ heldRegs = RawOf(ZeroRegs, 0)

\* Context A runs with any register values at any depth of its stack; context
\* B was made by new_with_entry and has not run.
CtxStart ==
    \E f \in [RegNames -> RegVals] : \E d \in 1..MaxDepth :
        LET b == NewWithEntry(StackBaseB, STACK_SIZE, "B_entry")
        IN /\ cpuRegs = RawOf(f, (d + 1) * WordSize)
           /\ rawCtx = [c \in {"A", "B"} |->
                          IF c = "B" THEN b.raw ELSE RawOf(ZeroRegs, 0)]
           /\ stackMem = (b.at :> b.word)
           /\ ip = At("A_run")
           /\ heldRegs = RawOf(ZeroRegs, 0)

\* The scheduling state after construction, with n threads to spawn.
SchedInit(n, w) ==
    /\ pool = PoolNew
    /\ thread = [c \in Cores |-> {}]
    /\ cur = [c \in Cores |-> {}]
    /\ pc = [c \in Cores |-> "run_next"]
    /\ saved = [t \in Tids |-> "entry"]
    /\ jt = [c \in Cores |-> {}]
    /\ handle = [t \in Tids |-> "none"]
    /\ owner = [t \in Tids |-> {}]
    /\ nthreads = n
    /\ watch = w
    /\ hist = HistNew

\* No core is inside a ThreadPool call.
LockFree ==
    /\ lock = {}
    /\ got = [c \in Cores |-> {}]

\* Interrupts are off on every core and no line is in service: the state of
\* the specifications that do not follow interrupts.
IrqOff ==
    /\ ifl = [c \in Cores |-> FALSE]
    /\ flags = [t \in Tids |-> FALSE]
    /\ isr = {}
    /\ scancodes = <<>>

\* The tasks of main.rs that call read_line, and the calls each makes.
KbdTasks == 2
KbdReads == 1
KbdTaskIds == 1..KbdTasks

\* No unit is exercised on its own.
TmIdle ==
    /\ tm = TimerNew
    /\ tmLog = [started |-> <<>>, popped |-> <<>>, stopped |-> {},
                drain |-> FALSE, last |-> "new"]

KbdIdle ==
    /\ WAKER = {}
    /\ task = [st |-> [t \in KbdTaskIds |->
                          [pc |-> "spawned", woken |-> FALSE, reads |-> 0]],
               init |-> FALSE, held |-> <<>>, out |-> <<>>,
               accepted |-> <<>>, keys |-> 0]

RingIdle ==
    /\ KEYBUFFER = RingNew
    /\ keyLock = {}
    /\ caller = "idle"
    /\ handler = [pc |-> "idle", character |-> {}]
    /\ ringLog = [fifo |-> <<>>, last |-> "new", ret |-> {}]

NiIdle ==
    /\ ni = [t \in Tids |-> <<>>]
    /\ niLog = [t \in Tids |-> <<>>]

\* let pool = Arc::new(ThreadPool::new(..)) in main.
ArcIdle == arc = [strong |-> 1, raw |-> 0]

UnitIdle == TmIdle /\ KbdIdle /\ RingIdle /\ NiIdle /\ ArcIdle

InitWith(n, w) ==
    /\ SchedInit(n, w)
    /\ SmpInit
    /\ CtxIdle
    /\ LockFree
    /\ IrqOff
    /\ UnitIdle

\* Processor::tid / std_thread::current: the tid in the running slot.
Tid(c) == CHOOSE t \in thread[c] : TRUE

InThread(c) == cur[c] # {}
Me(c) == CHOOSE t \in cur[c] : TRUE

\* RFLAGS.IF of core c once it executes thread tid after a switch: ctx_switch
\* keeps the flags of the core, and a thread that resumes inside
\* std_thread::yield_now runs restore(flags), sti when the stored flag is set.
Resumed(c, tid) ==
    [ifl EXCEPT ![c] = @ \/ (saved[tid] # "entry" /\ flags[tid])]

\* A panic ends in the panic handler's hlt_loop: the core does nothing more.
Panic(c) ==
    /\ pc' = [pc EXCEPT ![c] = "panic"]
    /\ UNCHANGED <<pool, thread, cur, saved, jt, handle, owner, nthreads, watch, hist, smpVars, ctxVars, lockVars, irqVars, unitVars>>

\* The threads recorded Ready that no Processor holds as running.
ReadyIdle(p) ==
    {t \in Tids : p.threads[t].state = "Ready" /\ \A c \in Cores : t \notin thread[c]}

\* History kept for any pool call: a thread entered the ready queue again.
Requeue(p, q) == \E t \in Range(q.ready) : t \notin Range(p.ready)

\* --------------------------------------------------------------- Processor
\* A faulty run_next that unwraps what pool.run returned.
RunNextUnwrap(c) ==
    /\ pc[c] = "run_next"
    /\ LET r == PoolRun(pool)
       IN IF r.ret = {}
            THEN /\ pc' = [pc EXCEPT ![c] = "panic"]
                 /\ UNCHANGED <<pool, thread, cur, hist, ifl>>
          ELSE LET tid == CHOOSE t \in r.ret : TRUE
               IN /\ pool' = r.pool
                  /\ thread' = [thread EXCEPT ![c] = {tid}]
                  /\ cur' = [cur EXCEPT ![c] = {tid}]
                  /\ pc' = [pc EXCEPT ![c] = saved[tid]]
                  /\ ifl' = Resumed(c, tid)
                  /\ hist' = [hist EXCEPT
                        !.dispatched = IF hist.requeued THEN @ ELSE Append(@, tid),
                        !.yielded[tid] = FALSE,
                        !.parked[tid] = "no",
                        !.timerWoke = {w \in @ : w[1] # tid},
                        !.overtook[tid] = @ \cup hist.ahead[tid],
                        !.ahead = [u \in Tids |->
                                     IF "rr" \notin watch THEN {}
                                     ELSE IF u = tid THEN ReadyIdle(r.pool) \ {tid}
                                     ELSE hist.ahead[u] \ {tid}]]
    /\ UNCHANGED <<saved, jt, handle, owner, nthreads, watch, smpVars, ctxVars, lockVars, flags, isr, scancodes, unitVars>>

\* Processor::run_next: the thread pool.run hands out becomes the running
\* thread and the loop context switches into it; the switch resumes the
\* thread where its RawContext was saved.  With nothing Ready run_next
\* returns and the caller halts until the next interrupt.
RunNext(c) ==
    /\ pc[c] = "run_next"
    /\ LET r == PoolRun(pool)
       IN IF r.ret = {}
            THEN /\ pc' = [pc EXCEPT ![c] = "hlt"]
                 /\ UNCHANGED <<pool, thread, cur, hist, ifl>>
          ELSE LET tid == CHOOSE t \in r.ret : TRUE
               IN /\ pool' = r.pool
                  /\ thread' = [thread EXCEPT ![c] = {tid}]
                  /\ cur' = [cur EXCEPT ![c] = {tid}]
                  /\ pc' = [pc EXCEPT ![c] = saved[tid]]
                  /\ ifl' = Resumed(c, tid)
                  /\ hist' = [hist EXCEPT
                        !.dispatched = IF hist.requeued THEN @ ELSE Append(@, tid),
                        !.yielded[tid] = FALSE,
                        !.parked[tid] = "no",
                        !.timerWoke = {w \in @ : w[1] # tid},
                        !.overtook[tid] = @ \cup hist.ahead[tid],
                        !.ahead = [u \in Tids |->
                                     IF "rr" \notin watch THEN {}
                                     ELSE IF u = tid THEN ReadyIdle(r.pool) \ {tid}
                                     ELSE hist.ahead[u] \ {tid}]]
    /\ UNCHANGED <<saved, jt, handle, owner, nthreads, watch, smpVars, ctxVars, lockVars, flags, isr, scancodes, unitVars>>

\* The idle wait of the dispatch loop: hlt, then the loop calls run_next again.
Hlt(c) ==
    /\ pc[c] = "hlt"
    /\ pc' = [pc EXCEPT ![c] = "run_next"]
    /\ UNCHANGED <<pool, thread, cur, saved, jt, handle, owner, nthreads, watch, hist, smpVars, ctxVars, lockVars, irqVars, unitVars>>

\* Where yield_now returns to, for each caller of std_thread::yield_now.
YieldCont(at) ==
    CASE at = "body" -> "body"
      [] at = "park_yield" -> "body"
      [] at = "join_yield" -> "join"
      [] at = "exit_yield" -> "unreachable"

\* A faulty yield_now that files the thread it takes out of the slot as
\* Ready again whatever its recorded state.
YieldNowRequeue(c) ==
    /\ pc[c] \in {"body", "park_yield", "join_yield", "exit_yield"}
    /\ InThread(c)
    /\ IF thread[c] = {} THEN Panic(c)
       ELSE LET tid == Tid(c)
            IN /\ thread' = [thread EXCEPT ![c] = {}]
               /\ saved' = [saved EXCEPT ![tid] = YieldCont(pc[c])]
               /\ cur' = [cur EXCEPT ![c] = {}]
               /\ pc' = [pc EXCEPT ![c] = "hlt"]
               /\ pool' = [pool EXCEPT !.ready = SchedPush(@, tid)]
               /\ hist' = hist
               /\ UNCHANGED <<jt, handle, owner, nthreads, watch, smpVars, ctxVars, lockVars, irqVars, unitVars>>

\* A faulty yield_now that, finding no running thread, goes back to the loop
\* context without a panic.
YieldNowSilent(c) ==
    /\ pc[c] \in {"body", "park_yield", "join_yield", "exit_yield"}
    /\ InThread(c)
    /\ IF thread[c] = {}
         THEN /\ cur' = [cur EXCEPT ![c] = {}]
              /\ pc' = [pc EXCEPT ![c] = "hlt"]
              /\ UNCHANGED <<pool, thread, saved, jt, handle, owner, nthreads, watch, hist, smpVars, ctxVars, lockVars, irqVars, unitVars>>
       ELSE LET tid == Tid(c)
            IN /\ thread' = [thread EXCEPT ![c] = {}]
               /\ saved' = [saved EXCEPT ![tid] = YieldCont(pc[c])]
               /\ cur' = [cur EXCEPT ![c] = {}]
               /\ pc' = [pc EXCEPT ![c] = "hlt"]
               /\ hist' = [hist EXCEPT !.yielded[tid] =
                              pc[c] = "body" /\ pool.threads[tid].state = "Ready"]
               /\ UNCHANGED <<pool, jt, handle, owner, nthreads, watch, smpVars, ctxVars, lockVars, irqVars, unitVars>>

\* std_thread::yield_now -> Processor::yield_now: inside no_interrupt (the
\* flags are stored and interrupts disabled), the running (tid, context)
\* is taken out of the slot into the caller's frame and the context switches
\* to the loop context, which resumes inside run_next; run_next returns.
YieldNow(c) ==
    /\ pc[c] \in {"body", "park_yield", "join_yield", "exit_yield"}
    /\ InThread(c)
    /\ IF thread[c] = {} THEN Panic(c)
       ELSE LET tid == Tid(c)
            IN /\ thread' = [thread EXCEPT ![c] = {}]
               /\ saved' = [saved EXCEPT ![tid] = YieldCont(pc[c])]
               /\ cur' = [cur EXCEPT ![c] = {}]
               /\ pc' = [pc EXCEPT ![c] = "hlt"]
               /\ hist' = [hist EXCEPT !.yielded[tid] =
                              pc[c] = "body" /\ pool.threads[tid].state = "Ready"]
               /\ flags' = [flags EXCEPT ![tid] = ifl[c]]
               /\ ifl' = [ifl EXCEPT ![c] = FALSE]
               /\ UNCHANGED <<pool, jt, handle, owner, nthreads, watch, smpVars, ctxVars, lockVars, isr, scancodes, unitVars>>

\* A faulty stop_running that hands the thread to pool.stop and leaves it in
\* the running slot.
StopRunningKeep(c) ==
    /\ pc[c] = "body"
    /\ thread[c] # {}
    /\ pool' = PoolStop(pool, Tid(c))
    /\ hist' = [hist EXCEPT !.requeued = @ \/ Requeue(pool, pool')]
    /\ UNCHANGED <<thread, cur, pc, saved, jt, handle, owner, nthreads, watch, smpVars, ctxVars, lockVars, irqVars, unitVars>>

\* Processor::stop_running: the running (tid, context) is taken out of the
\* slot and handed to pool.stop; no context switch is made.
StopRunning(c) ==
    /\ pc[c] = "body"
    /\ thread[c] # {}
    /\ pool' = PoolStop(pool, Tid(c))
    /\ thread' = [thread EXCEPT ![c] = {}]
    /\ hist' = [hist EXCEPT !.requeued = @ \/ Requeue(pool, pool')]
    /\ UNCHANGED <<cur, pc, saved, jt, handle, owner, nthreads, watch, smpVars, ctxVars, lockVars, irqVars, unitVars>>

\* -------------------------------------------------------------- Thread API
\* kernel_thread_entry: the closure is taken out of its box and called.
ThreadEntry(c) ==
    /\ pc[c] = "entry"
    /\ pc' = [pc EXCEPT ![c] = "body"]
    /\ hist' = [hist EXCEPT !.bodyRuns[Me(c)] = @ + 1]
    /\ UNCHANGED <<pool, thread, cur, saved, jt, handle, owner, nthreads, watch, smpVars, ctxVars, lockVars, irqVars, unitVars>>

\* kernel_thread_entry after the closure returned r: exit(current().id(), r),
\* then yield_now.
ThreadExit(c, r) ==
    /\ pc[c] = "body"
    /\ IF thread[c] = {} THEN Panic(c)
       ELSE LET tid == Tid(c)
                w == pool.threads[tid].waiter
            IN /\ pool' = PoolExit(pool, tid, r)
               /\ pc' = [pc EXCEPT ![c] = "exit_yield"]
               /\ hist' = [hist EXCEPT
                     !.exitRec[tid] = {r},
                     !.exitAt[tid] = {Len(hist.tryLog[tid])},
                     !.sleepLeft = [u \in Tids |-> IF u \in w THEN 0 ELSE @[u]],
                     !.timerWoke = {x \in @ : x[1] # tid},
                     !.asked = [u \in Tids |-> IF u \in w \/ u = tid THEN 0 ELSE @[u]],
                     !.requeued = @ \/ Requeue(pool, pool')]
               /\ UNCHANGED <<thread, cur, saved, jt, handle, owner, nthreads, watch, smpVars, ctxVars, lockVars, irqVars, unitVars>>

DurToTicks(dur) == dur.secs * TicksPerSec + dur.nanos \div NanosPerTick

\* The Durations slept for: whole ticks, none, and half a tick.
Durations ==
    {[secs |-> 0, nanos |-> k * NanosPerTick] : k \in {0} \cup SleepTicks}
        \cup {[secs |-> 0, nanos |-> NanosPerTick \div 2]}

\* What a call of pool.sleep(tid, ticks) starts, for the history.
SleepHist(tid, ticks) ==
    IF pool.threads[tid].state = "Ready" /\ ticks # 0
      THEN [hist EXCEPT !.sleepLeft[tid] = ticks, !.asked[tid] = ticks,
                        !.timerWoke = {w \in @ : w[1] # tid}]
    ELSE hist

\* std_thread::sleep: pool.sleep(current().id(), dur_to_ticks(dur)), then park().
Sleep(c, dur) ==
    /\ pc[c] = "body"
    /\ IF thread[c] = {} THEN Panic(c)
       ELSE /\ pool' = PoolSleep(pool, Tid(c), DurToTicks(dur))
            /\ pc' = [pc EXCEPT ![c] = "park"]
            /\ hist' = [SleepHist(Tid(c), DurToTicks(dur)) EXCEPT
                           !.slept[Tid(c)] = IF "sleep" \in watch THEN {dur} ELSE @]
            /\ UNCHANGED <<thread, cur, saved, jt, handle, owner, nthreads, watch, smpVars, ctxVars, lockVars, irqVars, unitVars>>

\* std_thread::park: pool.sleep(current().id(), 0), then yield_now.
Park(c) ==
    /\ pc[c] \in {"body", "park"}
    /\ IF thread[c] = {} THEN Panic(c)
       ELSE /\ pool' = PoolSleep(pool, Tid(c), 0)
            /\ pc' = [pc EXCEPT ![c] = "park_yield"]
            /\ hist' = [hist EXCEPT !.parked[Tid(c)] =
                           IF "park" \in watch THEN "parked" ELSE @]
            /\ UNCHANGED <<thread, cur, saved, jt, handle, owner, nthreads, watch, smpVars, ctxVars, lockVars, irqVars, unitVars>>

\* processor().manager().sleep(current().id(), ticks) issued by a thread on
\* its own: the pool call alone, as in the first statement of sleep and park.
ManagerSleep(c, ticks) ==
    /\ pc[c] = "body"
    /\ thread[c] # {}
    /\ pool.threads[Tid(c)].state = "Ready"
    /\ pool' = PoolSleep(pool, Tid(c), ticks)
    /\ hist' = SleepHist(Tid(c), ticks)
    /\ UNCHANGED <<thread, cur, pc, saved, jt, handle, owner, nthreads, watch, smpVars, ctxVars, lockVars, irqVars, unitVars>>

\* Thread::unpark: pool.wakeup(self.tid).
Unpark(c, u) ==
    /\ pc[c] = "body"
    /\ pool.threads[u].state = "Sleeping"
    /\ pool' = PoolWakeup(pool, u)
    /\ hist' = [hist EXCEPT !.sleepLeft[u] = 0,
                            !.asked[u] = 0,
                            !.parked[u] = IF @ = "parked" THEN "unparked" ELSE @,
                            !.requeued = @ \/ Requeue(pool, pool')]
    /\ UNCHANGED <<thread, cur, pc, saved, jt, handle, owner, nthreads, watch, smpVars, ctxVars, lockVars, irqVars, unitVars>>

\* std_thread::spawn: pool.add(new_kernel_context(..)); the JoinHandle goes
\* to the caller (who, {} for the boot code).
SpawnBy(who) ==
    /\ pool.next <= nthreads
    /\ LET a == PoolAdd(pool)
       IN /\ pool' = a.pool
          /\ handle' = [handle EXCEPT ![a.tid] = "held"]
          /\ owner' = [owner EXCEPT ![a.tid] = who]
          /\ hist' = [hist EXCEPT
                 !.issued = Append(@, a.tid),
                 !.gone = IF "tid" \notin watch THEN @
                          ELSE [@ EXCEPT ![a.tid] =
                                  {u \in Range(hist.issued) : pool.threads[u].state = "None"}]]
    /\ UNCHANGED <<thread, cur, pc, saved, jt, nthreads, watch, smpVars, ctxVars, lockVars, irqVars, unitVars>>

Spawn(c) == pc[c] = "body" /\ SpawnBy(cur[c])

BootSpawn == SpawnBy({})

\* Drop for JoinHandle: pool.detach(self.thread.tid).
DropBy(who, h) ==
    /\ handle[h] = "held"
    /\ owner[h] = who
    /\ pool' = PoolDetach(pool, h)
    /\ handle' = [handle EXCEPT ![h] = "dropped"]
    /\ UNCHANGED <<thread, cur, pc, saved, jt, owner, nthreads, watch, hist, smpVars, ctxVars, lockVars, irqVars, unitVars>>

Drop(c, h) == pc[c] = "body" /\ DropBy(cur[c], h)

BootDrop(h) == DropBy({}, h)

\* JoinHandle::join is entered: the handle moves into the call.
JoinCall(c, h) ==
    /\ pc[c] = "body"
    /\ handle[h] = "held"
    /\ owner[h] = cur[c]
    /\ handle' = [handle EXCEPT ![h] = "joining"]
    /\ jt' = [jt EXCEPT ![c] = {h}]
    /\ pc' = [pc EXCEPT ![c] = "join"]
    /\ UNCHANGED <<pool, thread, cur, saved, owner, nthreads, watch, hist, smpVars, ctxVars, lockVars, irqVars, unitVars>>

\* A faulty join that returns on its first pass whether or not try_remove
\* found an exit code, yielding the default payload when it did not.
JoinTryNoCheck(c) ==
    /\ pc[c] = "join"
    /\ LET h == CHOOSE t \in jt[c] : TRUE
           r == PoolTryRemove(pool, h)
           v == IF r.ret = {} THEN {MaxResult} ELSE r.ret
       IN /\ pool' = r.pool
          /\ handle' = [handle EXCEPT ![h] = "joined"]
          /\ jt' = [jt EXCEPT ![c] = {}]
          /\ pc' = [pc EXCEPT ![c] = "body"]
          /\ hist' = [hist EXCEPT !.joinRet[h] = v,
                                  !.tryLog[h] = Append(@, r.ret)]
    /\ UNCHANGED <<thread, cur, saved, owner, nthreads, watch, smpVars, ctxVars, lockVars, irqVars, unitVars>>

\* A faulty join that leaves out core::mem::forget(self): when it returns Ok
\* the handle is dropped, and Drop calls detach.
JoinTryDrop(c) ==
    /\ pc[c] = "join"
    /\ LET h == CHOOSE t \in jt[c] : TRUE
           r == PoolTryRemove(pool, h)
       IN /\ IF r.ret # {}
               THEN /\ pool' = PoolDetach(r.pool, h)
                    /\ handle' = [handle EXCEPT ![h] = "dropped"]
                    /\ jt' = [jt EXCEPT ![c] = {}]
                    /\ pc' = [pc EXCEPT ![c] = "body"]
                    /\ hist' = [hist EXCEPT !.joinRet[h] = r.ret,
                                            !.tryLog[h] = Append(@, r.ret)]
             ELSE /\ pool' = r.pool
                  /\ pc' = [pc EXCEPT ![c] = "join_wait"]
                  /\ hist' = [hist EXCEPT !.tryLog[h] = Append(@, r.ret)]
                  /\ UNCHANGED <<handle, jt>>
    /\ UNCHANGED <<thread, cur, saved, owner, nthreads, watch, smpVars, ctxVars, lockVars, irqVars, unitVars>>

\* The head of join's loop: try_remove(self.thread.tid); Some(exit_code)
\* forgets the handle and returns Ok of the boxed value.
JoinTry(c) ==
    /\ pc[c] = "join"
    /\ LET h == CHOOSE t \in jt[c] : TRUE
           r == PoolTryRemove(pool, h)
       IN /\ pool' = r.pool
          /\ IF r.ret # {}
               THEN /\ handle' = [handle EXCEPT ![h] = "joined"]
                    /\ jt' = [jt EXCEPT ![c] = {}]
                    /\ pc' = [pc EXCEPT ![c] = "body"]
                    /\ hist' = [hist EXCEPT !.joinRet[h] = r.ret,
                                            !.tryLog[h] = Append(@, r.ret)]
             ELSE /\ pc' = [pc EXCEPT ![c] = "join_wait"]
                  /\ hist' = [hist EXCEPT !.tryLog[h] = Append(@, r.ret)]
                  /\ UNCHANGED <<handle, jt>>
    /\ UNCHANGED <<thread, cur, saved, owner, nthreads, watch, smpVars, ctxVars, lockVars, irqVars, unitVars>>

\* The rest of join's loop body: wait(current().id(), self.thread.tid), then
\* yield_now.
JoinWait(c) ==
    /\ pc[c] = "join_wait"
    /\ IF thread[c] = {} THEN Panic(c)
       ELSE /\ pool' = PoolWait(pool, Tid(c), CHOOSE t \in jt[c] : TRUE)
            /\ pc' = [pc EXCEPT ![c] = "join_yield"]
            /\ UNCHANGED <<thread, cur, saved, jt, handle, owner, nthreads, watch, hist, smpVars, ctxVars, lockVars, irqVars, unitVars>>

\* processor().manager().try_remove(handle.thread().id()) issued by the
\* holder of the JoinHandle.
TryRemove(c, h) ==
    /\ pc[c] = "body"
    /\ handle[h] = "held"
    /\ owner[h] = cur[c]
    /\ Len(hist.tryLog[h]) < MaxTries
    /\ LET r == PoolTryRemove(pool, h)
       IN /\ pool' = r.pool
          /\ hist' = [hist EXCEPT !.tryLog[h] = Append(@, r.ret)]
    /\ UNCHANGED <<thread, cur, pc, saved, jt, handle, owner, nthreads, watch, smpVars, ctxVars, lockVars, irqVars, unitVars>>

\* One tick observed by the pool.
Tick ==
    /\ pool.timer.tick < MaxTick
    /\ pool' = PoolTick(pool)
    /\ hist' = [hist EXCEPT
          !.sleepLeft = [t \in Tids |-> IF @[t] > 0 THEN @[t] - 1 ELSE 0],
          !.timerWoke = @ \cup {<<t, hist.asked[t]>> : t \in
                                    {u \in Tids : /\ pool.threads[u].state = "Sleeping"
                                                  /\ pool'.threads[u].state = "Ready"}},
          !.asked = [t \in Tids |->
                       IF pool'.threads[t].state = "Sleeping" THEN @[t] ELSE 0],
          !.requeued = @ \/ Requeue(pool, pool')]
    /\ UNCHANGED <<thread, cur, pc, saved, jt, handle, owner, nthreads, watch, smpVars, ctxVars, lockVars, irqVars, unitVars>>

\* ---------------------------------------------------------------- bring-up
\* main calls start_one_ap(i, i, ..) for i = 1, 2, ..: the core index and the
\* APIC id passed for the i-th AP.
ApicIdOf(i) == i

\* The top of AP_STACKS[ap_index], named by the index of the stack.
StackTopOf(i) == i

\* The IPI a write of ICR_LOW sends in start_one_ap call i, to the destination
\* last written to ICR_HIGH: (apic_id as u8 as u32) << 24, the 8-bit
\* destination field.
Ipi(i, mode, assert) ==
    [call |-> i, mode |-> mode, assert |-> assert, dest |-> ApicIdOf(i) % 256]

BspAt(label) == bsp.pc = label /\ bsp.index \in 1..bsp.last

BspGoto(label) == bsp' = [bsp EXCEPT !.pc = label]

\* main calls start_one_ap(.., pool.clone(), ..), whose first statements are
\* GLOBAL_THREAD_POOL_PTR = Arc::into_raw(pool.clone()) and
\* PROCESSORS_PTR = procs_ptr: one clone is the argument, one is given away.
BspPointers(procs_ptr) ==
    /\ BspAt("pointers")
    /\ GLOBAL_THREAD_POOL_PTR' = TRUE
    /\ PROCESSORS_PTR' = procs_ptr
    /\ BspGoto("stack_top")
    /\ arc' = [strong |-> arc.strong + 2, raw |-> arc.raw + 1]
    /\ UNCHANGED <<schedVars, ctxVars, lockVars, irqVars, AP_STARTUP, CPUS, ap,
                   tmVars, kbdVars, ringVars, niVars>>

\* AP_STARTUP.stack_top = stack_top; AP_STARTUP.pml4_phys = 0.
BspStackTop ==
    /\ BspAt("stack_top")
    /\ AP_STARTUP' = [AP_STARTUP EXCEPT !.stack_top = StackTopOf(bsp.index),
                                        !.pml4_phys = 0]
    /\ BspGoto("cpu_id")
    /\ UNCHANGED <<schedVars, ctxVars, lockVars, irqVars, GLOBAL_THREAD_POOL_PTR, PROCESSORS_PTR, CPUS, ap, unitVars>>

\* AP_STARTUP.cpu_id = ap_index.
BspCpuId ==
    /\ BspAt("cpu_id")
    /\ AP_STARTUP' = [AP_STARTUP EXCEPT !.cpu_id = bsp.index]
    /\ BspGoto("apic_id")
    /\ UNCHANGED <<schedVars, ctxVars, lockVars, irqVars, GLOBAL_THREAD_POOL_PTR, PROCESSORS_PTR, CPUS, ap, unitVars>>

\* A faulty start_one_ap that sends the IPIs without writing
\* AP_STARTUP.apic_id.
BspApicIdSkip ==
    /\ BspAt("apic_id")
    /\ BspGoto("init")
    /\ UNCHANGED <<schedVars, ctxVars, lockVars, irqVars, AP_STARTUP, GLOBAL_THREAD_POOL_PTR, PROCESSORS_PTR, CPUS, ap, unitVars>>

\* AP_STARTUP.apic_id = apic_id.
BspApicId ==
    /\ BspAt("apic_id")
    /\ AP_STARTUP' = [AP_STARTUP EXCEPT !.apic_id = ApicIdOf(bsp.index)]
    /\ BspGoto("init")
    /\ UNCHANGED <<schedVars, ctxVars, lockVars, irqVars, GLOBAL_THREAD_POOL_PTR, PROCESSORS_PTR, CPUS, ap, unitVars>>

\* send_init_sipi, the INIT assert and de-assert: the AP with that APIC id
\* is reset and waits for a Startup IPI.
BspInitIpi ==
    /\ BspAt("init")
    /\ ap' = [ap EXCEPT ![ApicIdOf(bsp.index)] = ApOff("wait_sipi")]
    /\ bsp' = [bsp EXCEPT !.pc = "sipi1",
                          !.icr = @ \o <<Ipi(bsp.index, "INIT", TRUE),
                                         Ipi(bsp.index, "INIT", FALSE)>>]
    /\ UNCHANGED <<schedVars, ctxVars, lockVars, irqVars, AP_STARTUP, GLOBAL_THREAD_POOL_PTR, PROCESSORS_PTR, CPUS, unitVars>>

\* A Startup IPI: an AP waiting for it begins at the trampoline, which jumps
\* to ap_trampoline_entry; an AP already running ignores it.
Sipi(a) ==
    IF ap[a].pc = "wait_sipi" THEN [ap EXCEPT ![a].pc = "entry"] ELSE ap

\* send_init_sipi, the first Startup IPI.
BspSipi1 ==
    /\ BspAt("sipi1")
    /\ ap' = Sipi(ApicIdOf(bsp.index))
    /\ bsp' = [bsp EXCEPT !.pc = "sipi2",
                          !.icr = Append(@, Ipi(bsp.index, "STARTUP", FALSE))]
    /\ UNCHANGED <<schedVars, ctxVars, lockVars, irqVars, AP_STARTUP, GLOBAL_THREAD_POOL_PTR, PROCESSORS_PTR, CPUS, unitVars>>

\* send_init_sipi, the second Startup IPI; start_one_ap returns without
\* waiting for the AP, dropping its argument pool, and after its nop delay
\* main goes on to the next call.
BspSipi2 ==
    /\ BspAt("sipi2")
    /\ ap' = Sipi(ApicIdOf(bsp.index))
    /\ bsp' = [bsp EXCEPT !.pc = "pointers", !.index = @ + 1,
                          !.icr = Append(@, Ipi(bsp.index, "STARTUP", FALSE))]
    /\ arc' = [arc EXCEPT !.strong = @ - 1]
    /\ UNCHANGED <<schedVars, ctxVars, lockVars, irqVars, AP_STARTUP, GLOBAL_THREAD_POOL_PTR, PROCESSORS_PTR, CPUS,
                   tmVars, kbdVars, ringVars, niVars>>

ApGoto(a, label) == [ap EXCEPT ![a].pc = label]

\* ap_trampoline_entry: let stack_top = (*data).stack_top.
ApReadStackTop(a) ==
    /\ ap[a].pc = "entry"
    /\ ap' = [ApGoto(a, "read_cpu_id") EXCEPT ![a].stack_top = AP_STARTUP.stack_top]
    /\ UNCHANGED <<schedVars, ctxVars, lockVars, irqVars, AP_STARTUP, GLOBAL_THREAD_POOL_PTR, PROCESSORS_PTR, CPUS, bsp, unitVars>>

\* let cpu_id = (*data).cpu_id.
ApReadCpuId(a) ==
    /\ ap[a].pc = "read_cpu_id"
    /\ ap' = [ApGoto(a, "read_apic_id") EXCEPT ![a].cpu_id = AP_STARTUP.cpu_id]
    /\ UNCHANGED <<schedVars, ctxVars, lockVars, irqVars, AP_STARTUP, GLOBAL_THREAD_POOL_PTR, PROCESSORS_PTR, CPUS, bsp, unitVars>>

\* let apic_id = (*data).apic_id; then the stack pointer is set.
ApReadApicId(a) ==
    /\ ap[a].pc = "read_apic_id"
    /\ ap' = [ApGoto(a, "set_apic_id") EXCEPT ![a].apic_id = AP_STARTUP.apic_id]
    /\ UNCHANGED <<schedVars, ctxVars, lockVars, irqVars, AP_STARTUP, GLOBAL_THREAD_POOL_PTR, PROCESSORS_PTR, CPUS, bsp, unitVars>>

\* let cpu = CPUS.get_mut(cpu_id); cpu.apic_id = apic_id.
ApSetApicId(a) ==
    /\ ap[a].pc = "set_apic_id"
    /\ CPUS' = [CPUS EXCEPT ![ap[a].cpu_id].apic_id = ap[a].apic_id]
    /\ ap' = ApGoto(a, "set_online")
    /\ UNCHANGED <<schedVars, ctxVars, lockVars, irqVars, AP_STARTUP, GLOBAL_THREAD_POOL_PTR, PROCESSORS_PTR, bsp, unitVars>>

\* cpu.online.store(1, SeqCst).
ApSetOnline(a) ==
    /\ ap[a].pc = "set_online"
    /\ CPUS' = [CPUS EXCEPT ![ap[a].cpu_id].online = 1]
    /\ ap' = ApGoto(a, "pool_check")
    /\ UNCHANGED <<schedVars, ctxVars, lockVars, irqVars, AP_STARTUP, GLOBAL_THREAD_POOL_PTR, PROCESSORS_PTR, bsp, unitVars>>

\* A faulty check that goes on with a null PROCESSORS_PTR.
ApProcsCheckSkip(a) ==
    /\ ap[a].pc = "procs_check"
    /\ ap' = [ApGoto(a, "processor") EXCEPT ![a].deref_null = @ \/ ~PROCESSORS_PTR]
    /\ UNCHANGED <<schedVars, ctxVars, lockVars, irqVars, AP_STARTUP, GLOBAL_THREAD_POOL_PTR, PROCESSORS_PTR, CPUS, bsp, unitVars>>

\* A faulty entry that lets the Arc it made from the pointer go out of scope.
ApPoolCheckDrop(a) ==
    /\ ap[a].pc = "pool_check"
    /\ ap' = IF GLOBAL_THREAD_POOL_PTR
               THEN [ApGoto(a, "procs_check") EXCEPT ![a].pool = TRUE]
               ELSE ApGoto(a, "halted")
    /\ arc' = IF GLOBAL_THREAD_POOL_PTR THEN [arc EXCEPT !.strong = @ - 1] ELSE arc
    /\ UNCHANGED <<schedVars, ctxVars, lockVars, irqVars, AP_STARTUP, GLOBAL_THREAD_POOL_PTR, PROCESSORS_PTR, CPUS, bsp,
                   tmVars, kbdVars, ringVars, niVars>>

\* if GLOBAL_THREAD_POOL_PTR.is_null() { loop { hlt } }; else the pointer
\* is turned back into an Arc, pool_arc, which lives as long as the entry
\* function, and core::mem::forget(pool_arc.clone()) adds a reference.
ApPoolCheck(a) ==
    /\ ap[a].pc = "pool_check"
    /\ ap' = IF GLOBAL_THREAD_POOL_PTR
               THEN [ApGoto(a, "procs_check") EXCEPT ![a].pool = TRUE]
               ELSE ApGoto(a, "halted")
    /\ arc' = IF GLOBAL_THREAD_POOL_PTR THEN [arc EXCEPT !.strong = @ + 1] ELSE arc
    /\ UNCHANGED <<schedVars, ctxVars, lockVars, irqVars, AP_STARTUP, GLOBAL_THREAD_POOL_PTR, PROCESSORS_PTR, CPUS, bsp,
                   tmVars, kbdVars, ringVars, niVars>>

\* if PROCESSORS_PTR.is_null() { loop { hlt } }; else
\* procs = &*PROCESSORS_PTR.add(cpu_id).
ApProcsCheck(a) ==
    /\ ap[a].pc = "procs_check"
    /\ ap' = ApGoto(a, IF PROCESSORS_PTR THEN "processor" ELSE "halted")
    /\ UNCHANGED <<schedVars, ctxVars, lockVars, irqVars, AP_STARTUP, GLOBAL_THREAD_POOL_PTR, PROCESSORS_PTR, CPUS, bsp, unitVars>>

\* Some ProcessorInner has been written into the Processor of index i.
Initialized(i) == \E b \in AllAPs : i \in ap[b].processor

\* The rest of the entry function: the loop context is created,
\* procs.init(cpu_id, ..) initialises the Processor of that index and the AP
\* enters the dispatch loop.  init is handed pool_arc.clone(), and its
\* assignment drops the ProcessorInner the Processor held, with the Arc in it.
ApProcessor(a) ==
    /\ ap[a].pc = "processor"
    /\ ap' = [ApGoto(a, "loop") EXCEPT ![a].processor = {ap[a].cpu_id}]
    /\ arc' = [arc EXCEPT !.strong = IF Initialized(ap[a].cpu_id) THEN @ ELSE @ + 1]
    /\ UNCHANGED <<schedVars, ctxVars, lockVars, irqVars, AP_STARTUP, GLOBAL_THREAD_POOL_PTR, PROCESSORS_PTR, CPUS, bsp,
                   tmVars, kbdVars, ringVars, niVars>>

\* A Startup IPI that reaches a core main has not addressed: the core
\* begins ap_trampoline_entry with the statics as they are.
StraySipi ==
    /\ ap[StrayAP].pc = "off"
    /\ ap' = ApGoto(StrayAP, "entry")
    /\ UNCHANGED <<schedVars, ctxVars, lockVars, irqVars, AP_STARTUP, GLOBAL_THREAD_POOL_PTR, PROCESSORS_PTR, CPUS, bsp, unitVars>>

\* An AP other than a is inside procs.init on the Processor of index i.
InInit(a, i) == \E b \in AllAPs \ {a} : ap[b].pc = "in_init" /\ ap[b].cpu_id = i

\* The entry function up to the call of procs.init(cpu_id, ..): the loop
\* context is created and init begins its write of *self.inner.get().
ApInitBegin(a) ==
    /\ ap[a].pc = "processor"
    /\ ap' = ApGoto(a, "in_init")
    /\ arc' = [arc EXCEPT !.strong = @ + 1]
    /\ UNCHANGED <<schedVars, ctxVars, lockVars, irqVars, AP_STARTUP, GLOBAL_THREAD_POOL_PTR, PROCESSORS_PTR, CPUS, bsp,
                   tmVars, kbdVars, ringVars, niVars>>

\* procs.init returns: the Processor of index cpu_id holds Some(ProcessorInner)
\* and the AP enters its loop.
ApInitEnd(a) ==
    /\ ap[a].pc = "in_init"
    /\ ap' = [ApGoto(a, "loop") EXCEPT ![a].processor = {ap[a].cpu_id}]
    /\ arc' = [arc EXCEPT !.strong = IF Initialized(ap[a].cpu_id) THEN @ - 1 ELSE @]
    /\ UNCHANGED <<schedVars, ctxVars, lockVars, irqVars, AP_STARTUP, GLOBAL_THREAD_POOL_PTR, PROCESSORS_PTR, CPUS, bsp,
                   tmVars, kbdVars, ringVars, niVars>>

\* procs.run_next(cpu_id) in the loop, with no thread in the pool: inner()
\* panics on None, else run returns None and the AP goes to its hlt. A read of
\* the Option while another core writes it in init is a data race: it may
\* find Some or not.
ApRunNext(a) ==
    /\ ap[a].pc = "loop"
    /\ \E found \in BOOLEAN :
         /\ IF InInit(a, ap[a].cpu_id) THEN TRUE
            ELSE found = Initialized(ap[a].cpu_id)
         /\ ap' = ApGoto(a, IF found THEN "idle" ELSE "panic")
    /\ UNCHANGED <<schedVars, ctxVars, lockVars, irqVars, AP_STARTUP, GLOBAL_THREAD_POOL_PTR, PROCESSORS_PTR, CPUS, bsp, unitVars>>

\* The hlt of the loop ends and the loop goes round.
ApIdle(a) ==
    /\ ap[a].pc = "idle"
    /\ ap' = ApGoto(a, "loop")
    /\ UNCHANGED <<schedVars, ctxVars, lockVars, irqVars, AP_STARTUP, GLOBAL_THREAD_POOL_PTR, PROCESSORS_PTR, CPUS, bsp, unitVars>>

\* ---------------------------------------------------------- context switch
\* The call instruction of ContextImpl::switch_to: the return address is
\* pushed and ctx_switch(old, new) is entered.
CallCtxSwitch(old, new, ret) ==
    LET sp == cpuRegs.rsp - WordSize
    IN /\ cpuRegs' = [cpuRegs EXCEPT !.rsp = sp]
       /\ stackMem' = (sp :> ret) @@ stackMem
       /\ ip' = [at |-> "save", old |-> old, new |-> new]

\* Context A calls switch_to(B).
ASwitchTo ==
    /\ ip.at = "A_run"
    /\ CallCtxSwitch("A", "B", "A_resumed")
    /\ heldRegs' = [cpuRegs EXCEPT !.rsp = @ - WordSize]
    /\ UNCHANGED <<schedVars, smpVars, lockVars, irqVars, rawCtx, unitVars>>

\* A faulty save that leaves rbx out.
CtxSaveNoRbx ==
    /\ ip.at = "save"
    /\ rawCtx' = [rawCtx EXCEPT ![ip.old] = [cpuRegs EXCEPT !.rbx = rawCtx[ip.old].rbx]]
    /\ ip' = [ip EXCEPT !.at = "load"]
    /\ UNCHANGED <<schedVars, smpVars, lockVars, irqVars, cpuRegs, stackMem, heldRegs, unitVars>>

\* A faulty save that stores the registers into both contexts.
CtxSaveBoth ==
    /\ ip.at = "save"
    /\ rawCtx' = [c \in {"A", "B"} |-> cpuRegs]
    /\ ip' = [ip EXCEPT !.at = "load"]
    /\ UNCHANGED <<schedVars, smpVars, lockVars, irqVars, cpuRegs, stackMem, heldRegs, unitVars>>

\* ctx_switch, first half: mov [rdi + ..], r15 .. rsp.
CtxSave ==
    /\ ip.at = "save"
    /\ rawCtx' = [rawCtx EXCEPT ![ip.old] = cpuRegs]
    /\ ip' = [ip EXCEPT !.at = "load"]
    /\ UNCHANGED <<schedVars, smpVars, lockVars, irqVars, cpuRegs, stackMem, heldRegs, unitVars>>

\* ctx_switch, second half: mov r15 .. rsp, [rsi + ..].
CtxLoad ==
    /\ ip.at = "load"
    /\ cpuRegs' = rawCtx[ip.new]
    /\ ip' = [ip EXCEPT !.at = "ret"]
    /\ UNCHANGED <<schedVars, smpVars, lockVars, irqVars, rawCtx, stackMem, heldRegs, unitVars>>

\* ctx_switch, ret: the word at the top of the new stack is popped into the
\* instruction pointer.
CtxRet ==
    /\ ip.at = "ret"
    /\ ip' = At(IF cpuRegs.rsp \in DOMAIN stackMem
                  THEN stackMem[cpuRegs.rsp] ELSE "wild")
    /\ cpuRegs' = [cpuRegs EXCEPT !.rsp = @ + WordSize]
    /\ UNCHANGED <<schedVars, smpVars, lockVars, irqVars, rawCtx, stackMem, heldRegs, unitVars>>

\* Context B runs from its entry function: its code leaves any values in the
\* callee-saved registers before it switches.
BRun(v) ==
    /\ ip.at = "B_entry"
    /\ cpuRegs' = RawOf([r \in RegNames |-> v], cpuRegs.rsp)
    /\ ip' = At("B_run")
    /\ UNCHANGED <<schedVars, smpVars, lockVars, irqVars, rawCtx, stackMem, heldRegs, unitVars>>

\* Context B calls switch_to(A) at once.
BSwitchTo ==
    /\ ip.at = "B_run"
    /\ CallCtxSwitch("B", "A", "B_resumed")
    /\ UNCHANGED <<schedVars, smpVars, lockVars, irqVars, rawCtx, heldRegs, unitVars>>

\* --------------------------------------------------------- specifications
Init == InitWith(SchedThreads, {})

ThreadsInit == InitWith(MaxThreads, {})

\* The scheduling core: threads added by the boot code are dispatched by the
\* cores and yield, stop, sleep, park, are woken and exit in any interleaving.
Next ==
    \/ BootSpawn
    \/ Tick
    \/ \E c \in Cores : RunNext(c)
    \/ \E c \in Cores : Hlt(c)
    \/ \E c \in Cores : YieldNow(c)
    \/ \E c \in Cores : StopRunning(c)
    \/ \E c \in Cores : ThreadEntry(c)
    \/ \E c \in Cores : ThreadExit(c, MaxResult)
    \/ \E c \in Cores : \E dur \in Durations : Sleep(c, dur)
    \/ \E c \in Cores : Park(c)
    \/ \E c \in Cores : \E n \in SleepTicks : ManagerSleep(c, n)
    \/ \E c \in Cores : \E u \in Tids : Unpark(c, u)

Spec == Init /\ [][Next]_vars

\* Round-robin dispatch: threads that yield or stop, with the queue seen at
\* each dispatch recorded.
RRInit == InitWith(MaxThreads, {"rr"})

RRNext ==
    \/ BootSpawn
    \/ \E c \in Cores : RunNext(c)
    \/ \E c \in Cores : Hlt(c)
    \/ \E c \in Cores : YieldNow(c)
    \/ \E c \in Cores : StopRunning(c)
    \/ \E c \in Cores : ThreadEntry(c)

RRSpec == RRInit /\ [][RRNext]_vars

\* Spawn, join, try_remove and detach: threads spawn threads and join or drop
\* their handles while the spawned threads run to their exit.
JoinNext ==
    \/ BootSpawn
    \/ \E h \in Tids : BootDrop(h)
    \/ \E c \in Cores : RunNext(c)
    \/ \E c \in Cores : Hlt(c)
    \/ \E c \in Cores : YieldNow(c)
    \/ \E c \in Cores : ThreadEntry(c)
    \/ \E c \in Cores : \E r \in Results : ThreadExit(c, r)
    \/ \E c \in Cores : Spawn(c)
    \/ \E c \in Cores : \E h \in Tids : Drop(c, h)
    \/ \E c \in Cores : \E h \in Tids : JoinCall(c, h)
    \/ \E c \in Cores : JoinTry(c)
    \/ \E c \in Cores : JoinWait(c)
    \/ \E c \in Cores : \E h \in Tids : TryRemove(c, h)

JoinSpec == ThreadsInit /\ [][JoinNext]_vars

\* The same operations with the history of the Tids add hands out.
TidInit == InitWith(MaxThreads, {"tid"})

TidSpec == TidInit /\ [][JoinNext]_vars

\* Threads that spawn, join and exit, with every core running for ever: the
\* dispatch loop calls run_next after each hlt, and a thread inside join, or
\* behind its exit call, goes on to its next statement.
JoinLiveNext ==
    \/ BootSpawn
    \/ \E c \in Cores : RunNext(c)
    \/ \E c \in Cores : Hlt(c)
    \/ \E c \in Cores : YieldNow(c)
    \/ \E c \in Cores : ThreadEntry(c)
    \/ \E c \in Cores : \E r \in Results : ThreadExit(c, r)
    \/ \E c \in Cores : Spawn(c)
    \/ \E c \in Cores : \E h \in Tids : JoinCall(c, h)
    \/ \E c \in Cores : JoinTry(c)
    \/ \E c \in Cores : JoinWait(c)

\* The statements a core cannot stay in front of.
MustStep(c) ==
    \/ RunNext(c)
    \/ Hlt(c)
    \/ ThreadEntry(c)
    \/ JoinTry(c)
    \/ JoinWait(c)
    \/ pc[c] \in {"join_yield", "exit_yield"} /\ YieldNow(c)

JoinLiveSpec ==
    /\ Init
    /\ [][JoinLiveNext]_vars
    /\ \A c \in Cores : WF_vars(MustStep(c))

\* Threads that park and unpark one another, with every core running for
\* ever: the dispatch loop calls run_next after each hlt, and a thread inside
\* park goes on from pool.sleep to its yield_now.
ParkInit == InitWith(SchedThreads, {"park"})

ParkNext ==
    \/ BootSpawn
    \/ \E c \in Cores : RunNext(c)
    \/ \E c \in Cores : Hlt(c)
    \/ \E c \in Cores : YieldNow(c)
    \/ \E c \in Cores : ThreadEntry(c)
    \/ \E c \in Cores : Park(c)
    \/ \E c \in Cores : \E u \in Tids : Unpark(c, u)

ParkSpec ==
    /\ ParkInit
    /\ [][ParkNext]_vars
    /\ \A c \in Cores : WF_vars(MustStep(c) \/ (pc[c] = "park_yield" /\ YieldNow(c)))

\* Threads that only yield or exit, with every core running its dispatch loop
\* for ever: the loop of ap_trampoline_entry calls run_next after each hlt.
YieldNext ==
    \/ BootSpawn
    \/ \E c \in Cores : RunNext(c)
    \/ \E c \in Cores : Hlt(c)
    \/ \E c \in Cores : YieldNow(c)
    \/ \E c \in Cores : ThreadEntry(c)
    \/ \E c \in Cores : \E r \in Results : ThreadExit(c, r)

YieldSpec ==
    /\ ThreadsInit
    /\ [][YieldNext]_vars
    /\ \A c \in Cores : WF_vars(RunNext(c)) /\ WF_vars(Hlt(c))

\* The scenario of section 8: ScenarioThreads threads, each reporting its id
\* once and returning, and one core running the dispatch loop.
ScenarioInit == InitWith(ScenarioThreads, {})

ScenarioNext ==
    \/ BootSpawn
    \/ RunNext(1)
    \/ Hlt(1)
    \/ ThreadEntry(1)
    \/ ThreadExit(1, MaxResult)
    \/ pc[1] = "exit_yield" /\ YieldNow(1)

ScenarioSpec == ScenarioInit /\ [][ScenarioNext]_vars

\* The bring-up of NAPs application processors: the boot processor runs
\* main's start_one_ap calls one after the other while every started AP runs
\* ap_trampoline_entry at its own pace.
SmpNext ==
    \/ BspPointers(TRUE)
    \/ BspStackTop
    \/ BspCpuId
    \/ BspApicId
    \/ BspInitIpi
    \/ BspSipi1
    \/ BspSipi2
    \/ \E a \in APs : ApReadStackTop(a)
    \/ \E a \in APs : ApReadCpuId(a)
    \/ \E a \in APs : ApReadApicId(a)
    \/ \E a \in APs : ApSetApicId(a)
    \/ \E a \in APs : ApSetOnline(a)
    \/ \E a \in APs : ApPoolCheck(a)
    \/ \E a \in APs : ApProcsCheck(a)
    \/ \E a \in APs : ApProcessor(a)

SmpSpec == Init /\ [][SmpNext]_vars

\* The bring-up of NullAPs application processors with any procs_ptr handed
\* to start_one_ap, null included, and with a core that is started before
\* start_one_ap has set the statics.
NullNext ==
    \/ \E procs_ptr \in BOOLEAN : BspPointers(procs_ptr)
    \/ BspStackTop
    \/ BspCpuId
    \/ BspApicId
    \/ BspInitIpi
    \/ BspSipi1
    \/ BspSipi2
    \/ StraySipi
    \/ \E a \in AllAPs : ApReadStackTop(a)
    \/ \E a \in AllAPs : ApReadCpuId(a)
    \/ \E a \in AllAPs : ApReadApicId(a)
    \/ \E a \in AllAPs : ApSetApicId(a)
    \/ \E a \in AllAPs : ApSetOnline(a)
    \/ \E a \in AllAPs : ApPoolCheck(a)
    \/ \E a \in AllAPs : ApProcsCheck(a)
    \/ \E a \in AllAPs : ApProcessor(a)

NullInit ==
    /\ SchedInit(SchedThreads, {})
    /\ SmpInitWith(NullAPs)
    /\ CtxIdle
    /\ LockFree
    /\ IrqOff
    /\ UnitIdle

NullSpec == NullInit /\ [][NullNext]_vars

\* ------------------------------------------------------------ the pool lock
\* run_next up to its call of inner.manager.run(cpu_id): the core enters the
\* ThreadPool, which it can only while no other core is inside.
LockRun(c) ==
    /\ pc[c] = "run_next"
    /\ lock = {}
    /\ lock' = {c}
    /\ pc' = [pc EXCEPT ![c] = "in_run"]
    /\ UNCHANGED <<pool, thread, cur, saved, jt, handle, owner, nthreads, watch, hist, got, smpVars, ctxVars, irqVars, unitVars>>

\* A faulty run_next whose pool.run hands the thread over with the pool still
\* locked.
LockRunRetHold(c) ==
    /\ pc[c] = "in_run"
    /\ LET r == PoolRun(pool)
       IN /\ pool' = r.pool
          /\ got' = [got EXCEPT ![c] = r.ret]
    /\ pc' = [pc EXCEPT ![c] = "run_ret"]
    /\ UNCHANGED <<thread, cur, saved, jt, handle, owner, nthreads, watch, hist, lock, smpVars, ctxVars, irqVars, unitVars>>

\* inner.manager.run(cpu_id) returns to run_next: the Option it returns is
\* run_next's, and the pool is unlocked.
LockRunRet(c) ==
    /\ pc[c] = "in_run"
    /\ LET r == PoolRun(pool)
       IN /\ pool' = r.pool
          /\ got' = [got EXCEPT ![c] = r.ret]
    /\ lock' = lock \ {c}
    /\ pc' = [pc EXCEPT ![c] = "run_ret"]
    /\ UNCHANGED <<thread, cur, saved, jt, handle, owner, nthreads, watch, hist, smpVars, ctxVars, irqVars, unitVars>>

\* The rest of run_next: None returns to the loop; Some((tid, next_ctx)) goes
\* into the running slot and loop_context.switch_to(next_ctx) switches.
LockSwitch(c) ==
    /\ pc[c] = "run_ret"
    /\ IF got[c] = {}
         THEN /\ pc' = [pc EXCEPT ![c] = "hlt"]
              /\ UNCHANGED <<thread, cur, got, ifl>>
       ELSE LET tid == CHOOSE t \in got[c] : TRUE
            IN /\ thread' = [thread EXCEPT ![c] = {tid}]
               /\ cur' = [cur EXCEPT ![c] = {tid}]
               /\ got' = [got EXCEPT ![c] = {}]
               /\ pc' = [pc EXCEPT ![c] = saved[tid]]
               /\ ifl' = Resumed(c, tid)
    /\ UNCHANGED <<pool, saved, jt, handle, owner, nthreads, watch, hist, lock, smpVars, ctxVars, flags, isr, scancodes, unitVars>>

\* stop_running up to its call of inner.manager.stop(tid, ctx): the running
\* slot is taken, and the core enters the ThreadPool.
LockStop(c) ==
    /\ pc[c] = "body"
    /\ thread[c] # {}
    /\ lock = {}
    /\ lock' = {c}
    /\ got' = [got EXCEPT ![c] = thread[c]]
    /\ thread' = [thread EXCEPT ![c] = {}]
    /\ pc' = [pc EXCEPT ![c] = "in_stop"]
    /\ UNCHANGED <<pool, cur, saved, jt, handle, owner, nthreads, watch, hist, smpVars, ctxVars, irqVars, unitVars>>

\* inner.manager.stop(tid, ctx) returns: stop_running returns to its caller.
LockStopRet(c) ==
    /\ pc[c] = "in_stop"
    /\ pool' = PoolStop(pool, CHOOSE t \in got[c] : TRUE)
    /\ got' = [got EXCEPT ![c] = {}]
    /\ lock' = lock \ {c}
    /\ pc' = [pc EXCEPT ![c] = "body"]
    /\ UNCHANGED <<thread, cur, saved, jt, handle, owner, nthreads, watch, hist, smpVars, ctxVars, irqVars, unitVars>>

\* A ThreadPool call made by code that is not followed into the call: it runs
\* from lock to unlock while no core is inside the pool.
Locked(A) == lock = {} /\ A

\* The dispatch loops with run_next and stop_running followed into and out of
\* their ThreadPool call, beside threads that yield, park and exit.
LockNext ==
    \/ Locked(BootSpawn)
    \/ \E c \in Cores : LockRun(c)
    \/ \E c \in Cores : LockRunRet(c)
    \/ \E c \in Cores : LockSwitch(c)
    \/ \E c \in Cores : LockStop(c)
    \/ \E c \in Cores : LockStopRet(c)
    \/ \E c \in Cores : Hlt(c)
    \/ \E c \in Cores : ThreadEntry(c)
    \/ \E c \in Cores : YieldNow(c)
    \/ \E c \in Cores : Locked(Park(c))
    \/ \E c \in Cores : \E u \in Tids : Locked(Unpark(c, u))
    \/ \E c \in Cores : Locked(ThreadExit(c, MaxResult))

LockSpec == Init /\ [][LockNext]_vars

\* -------------------------------------------------------------- interrupts
\* InterruptIndex of the two lines whose handlers are followed.
Lines == {"Timer", "Keyboard"}

\* The bytes read from the keyboard data port.
ScanCodes == 1..MaxScan

\* Core c is inside an interrupt handler.
Servicing(c) == \E l \in Lines : <<l, c>> \in isr

\* The code a core executes outside of interrupt handlers takes a step.
Runs(c, A) == ~Servicing(c) /\ A

\* A thread body enables interrupts (the sti of interrupts::enable).
EnableInterrupts(c) ==
    /\ pc[c] = "body"
    /\ ~ifl[c]
    /\ ifl' = [ifl EXCEPT ![c] = TRUE]
    /\ UNCHANGED <<schedVars, smpVars, ctxVars, lockVars, flags, isr, scancodes, unitVars>>

\* Line l interrupts core c, whose IF is set: the interrupt gate clears IF and
\* the handler is entered on top of the interrupted code; an interrupted hlt
\* is over, and the handler returns behind it.
Interrupt(c, l) ==
    /\ ifl[c]
    /\ \A d \in Cores : <<l, d>> \notin isr
    /\ isr' = isr \cup {<<l, c>>}
    /\ ifl' = [ifl EXCEPT ![c] = FALSE]
    /\ pc' = [pc EXCEPT ![c] = IF @ = "hlt" THEN "run_next" ELSE @]
    /\ UNCHANGED <<pool, thread, cur, saved, jt, handle, owner, nthreads, watch, hist, smpVars, ctxVars, lockVars, flags, scancodes, unitVars>>

\* A faulty timer handler that advances the pool's tick count.
TimerInterruptTick(c) ==
    /\ <<"Timer", c>> \in isr
    /\ pool' = PoolTick(pool)
    /\ isr' = isr \ {<<"Timer", c>>}
    /\ ifl' = [ifl EXCEPT ![c] = TRUE]
    /\ UNCHANGED <<thread, cur, pc, saved, jt, handle, owner, nthreads, watch, hist, smpVars, ctxVars, lockVars, flags, scancodes, unitVars>>

\* timer_interrupt_handler: notify_end_of_interrupt(Timer), and the return
\* from the interrupt restores the interrupted flags.
TimerInterruptHandler(c) ==
    /\ <<"Timer", c>> \in isr
    /\ isr' = isr \ {<<"Timer", c>>}
    /\ ifl' = [ifl EXCEPT ![c] = TRUE]
    /\ UNCHANGED <<schedVars, smpVars, ctxVars, lockVars, flags, scancodes, unitVars>>

\* keyboard_interrupt_handler: the scancode read from port 0x60 goes to
\* add_scancode, which pushes it unless the queue is full;
\* notify_end_of_interrupt(Keyboard), and the return from the interrupt.
KeyboardInterruptHandler(c, scancode) ==
    /\ <<"Keyboard", c>> \in isr
    /\ scancodes' = IF Len(scancodes) < QueueCap
                      THEN Append(scancodes, scancode)
                    ELSE scancodes
    /\ isr' = isr \ {<<"Keyboard", c>>}
    /\ ifl' = [ifl EXCEPT ![c] = TRUE]
    /\ UNCHANGED <<schedVars, smpVars, ctxVars, lockVars, flags, unitVars>>

\* The dispatch loop of ap_trampoline_entry, loop { run_next; hlt }, under
\* interrupts: the hlt ends when an interrupt is taken.
IrqNext ==
    \/ BootSpawn
    \/ \E c \in Cores : Runs(c, RunNext(c))
    \/ \E c \in Cores : Runs(c, ThreadEntry(c))
    \/ \E c \in Cores : Runs(c, EnableInterrupts(c))
    \/ \E c \in Cores : Runs(c, YieldNow(c))
    \/ \E c \in Cores : Runs(c, Park(c))
    \/ \E c \in Cores : Runs(c, ThreadExit(c, MaxResult))
    \/ \E c \in Cores : \E l \in Lines : Interrupt(c, l)
    \/ \E c \in Cores : TimerInterruptHandler(c)
    \/ \E c \in Cores : \E sc \in ScanCodes : KeyboardInterruptHandler(c, sc)

IrqSpec == Init /\ [][IrqNext]_vars

\* The bring-up of two APs with procs.init followed from its call to its
\* return, and the run_next calls of the loop behind it.
ProcNext ==
    \/ BspPointers(TRUE)
    \/ BspStackTop
    \/ BspCpuId
    \/ BspApicId
    \/ BspInitIpi
    \/ BspSipi1
    \/ BspSipi2
    \/ \E a \in APs : ApReadStackTop(a)
    \/ \E a \in APs : ApReadCpuId(a)
    \/ \E a \in APs : ApReadApicId(a)
    \/ \E a \in APs : ApSetApicId(a)
    \/ \E a \in APs : ApSetOnline(a)
    \/ \E a \in APs : ApPoolCheck(a)
    \/ \E a \in APs : ApProcsCheck(a)
    \/ \E a \in APs : ApInitBegin(a)
    \/ \E a \in APs : ApInitEnd(a)
    \/ \E a \in APs : ApRunNext(a)
    \/ \E a \in APs : ApIdle(a)

ProcSpec == NullInit /\ [][ProcNext]_vars

\* What core c does next without any choice of the code it runs: the loop
\* calls run_next, a dispatched thread enters its closure, park and exit reach
\* their yield_now, and a handler that was entered runs to its return.
IrqStep(c) ==
    \/ Runs(c, RunNext(c))
    \/ Runs(c, ThreadEntry(c))
    \/ (pc[c] \in {"park_yield", "exit_yield"} /\ Runs(c, YieldNow(c)))
    \/ TimerInterruptHandler(c)
    \/ \E sc \in ScanCodes : KeyboardInterruptHandler(c, sc)

\* Every core keeps executing, and the timer keeps interrupting every core
\* that accepts interrupts.
IrqLiveSpec ==
    /\ Init
    /\ [][IrqNext]_vars
    /\ \A c \in Cores : WF_vars(IrqStep(c))
    /\ \A c \in Cores : WF_vars(Interrupt(c, "Timer"))

\* Threads that call std_thread::sleep while the pool observes ticks, with
\* the Duration of each sleep recorded.
SleepInit == InitWith(SchedThreads, {"sleep"})

SleepNext ==
    \/ BootSpawn
    \/ Tick
    \/ \E c \in Cores : RunNext(c)
    \/ \E c \in Cores : Hlt(c)
    \/ \E c \in Cores : ThreadEntry(c)
    \/ \E c \in Cores : \E dur \in Durations : Sleep(c, dur)
    \/ \E c \in Cores : pc[c] = "park" /\ Park(c)
    \/ \E c \in Cores : pc[c] = "park_yield" /\ YieldNow(c)

SleepSpec == SleepInit /\ [][SleepNext]_vars

\* ------------------------------------------------------------ Timer alone
\* A Timer<usize> driven by its four operations.  The data of an event is the
\* number of the start that made it; tmLog keeps what was started, stopped and
\* popped, and whether the pops that follow a tick are still going on.
TmEvents == 3
TmAfter == 2
TmTicks == 3

\* timer.start(time_after, data)
TmStart(time_after) ==
    /\ Len(tmLog.started) < TmEvents
    /\ LET data == Len(tmLog.started) + 1
       IN /\ tm' = TimerStart(tm, time_after, data)
          /\ tmLog' = [tmLog EXCEPT
                 !.started = Append(@, [data |-> data, at |-> tm.tick,
                                        after |-> time_after]),
                 !.last = "start"]
    /\ UNCHANGED <<schedVars, smpVars, ctxVars, lockVars, irqVars,
                   kbdVars, ringVars, niVars, arcVars>>

\* timer.stop(data)
TmStop(data) ==
    /\ tm' = TimerStop(tm, data)
    /\ tmLog' = [tmLog EXCEPT !.stopped = @ \cup {data}, !.last = "stop"]
    /\ UNCHANGED <<schedVars, smpVars, ctxVars, lockVars, irqVars,
                   kbdVars, ringVars, niVars, arcVars>>

\* timer.tick()
TmTick ==
    /\ tm.tick < TmTicks
    /\ tm' = TimerTick(tm)
    /\ tmLog' = [tmLog EXCEPT !.drain = TRUE, !.last = "tick"]
    /\ UNCHANGED <<schedVars, smpVars, ctxVars, lockVars, irqVars,
                   kbdVars, ringVars, niVars, arcVars>>

\* timer.pop(); the pops that follow a tick end with the one that returns None.
TmPop ==
    LET r == TimerPop(tm)
    IN /\ tm' = r.timer
       /\ tmLog' = [tmLog EXCEPT
              !.popped = IF r.ret = {} THEN @
                         ELSE Append(@, [data |-> CHOOSE d \in r.ret : TRUE,
                                         tick |-> tm.tick]),
              !.drain = @ /\ r.ret # {},
              !.last = IF r.ret = {} THEN "none" ELSE "some"]
       /\ UNCHANGED <<schedVars, smpVars, ctxVars, lockVars, irqVars,
                      kbdVars, ringVars, niVars, arcVars>>

\* Any sequence of the four operations.
TimerNext ==
    \/ \E n \in 0..TmAfter : TmStart(n)
    \/ \E d \in 1..TmEvents : TmStop(d)
    \/ TmTick
    \/ TmPop

TimerSpec == Init /\ [][TimerNext]_vars

\* The caller pops until None after every tick: no tick while the pops that
\* follow the last one are going on.
DrainNext ==
    \/ \E n \in 0..TmAfter : TmStart(n)
    \/ \E d \in 1..TmEvents : TmStop(d)
    \/ ~tmLog.drain /\ TmTick
    \/ TmPop

DrainSpec == Init /\ [][DrainNext]_vars

\* ------------------------------------------------------- scancode stream
\* The tasks spawned by main.rs call read_line, which polls ScancodeStream
\* until a scancode completes a character.  The executor polls one task at a
\* time; the keyboard interrupt calls add_scancode on the same core, so the
\* handler runs from entry to return between two steps of poll_next.
\* task.accepted are the scancodes whose push returned Ok, task.out the ones
\* poll_next returned, task.held the one popped by the second pop and not yet
\* returned.
KbdKeys == 3

\* No task is inside a poll.
NoPoll == \A t \in KbdTaskIds : task.st[t].pc \in {"spawned", "pending", "done"}

\* keyboard.add_byte and process_keyevent: the scancodes that complete a
\* DecodedKey::Unicode character; the others are key releases and raw keys.
Unicode(scancode) == scancode = 1

\* add_scancode(scancode), called by keyboard_interrupt_handler: nothing but a
\* warning while the queue is uninitialised or full; otherwise the push and
\* WAKER.wake(), which takes the registered waker, if any, and wakes it.
AddScancode(scancode) ==
    /\ task.keys < KbdKeys
    /\ IF ~task.init \/ Len(scancodes) >= QueueCap
         THEN /\ task' = [task EXCEPT !.keys = @ + 1]
              /\ UNCHANGED <<scancodes, WAKER>>
         ELSE /\ scancodes' = Append(scancodes, scancode)
              /\ WAKER' = {}
              /\ task' = [task EXCEPT
                     !.keys = @ + 1,
                     !.accepted = Append(@, scancode),
                     !.st = [t \in KbdTaskIds |->
                               [@[t] EXCEPT !.woken = @ \/ t \in WAKER]]]
    /\ UNCHANGED <<schedVars, smpVars, ctxVars, lockVars, ifl, flags, isr,
                   tmVars, ringVars, niVars, arcVars>>

\* The executor polls a task that was spawned, or that returned Pending and
\* whose waker was woken since; the first read_line initialises SCANCODES and
\* with it the queue.
TaskPoll(t) ==
    /\ NoPoll
    /\ \/ task.st[t].pc = "spawned"
       \/ task.st[t].pc = "pending" /\ task.st[t].woken
    /\ task' = [task EXCEPT !.init = TRUE,
                            !.st[t].pc = "poll",
                            !.st[t].woken = FALSE]
    /\ UNCHANGED <<schedVars, smpVars, ctxVars, lockVars, irqVars, WAKER,
                   tmVars, ringVars, niVars, arcVars>>

\* poll_next returned Ready(Some(scancode)) to read_line: a scancode that
\* completes a character ends the call, and the task ends with its last call;
\* otherwise the stream is polled again.
Ready(st, scancode) ==
    IF ~Unicode(scancode) THEN [st EXCEPT !.pc = "poll"]
    ELSE [st EXCEPT !.reads = @ + 1,
                    !.pc = IF st.reads + 1 = KbdReads THEN "done" ELSE "poll"]

\* poll_next, the first queue.pop(): Ready(Some(scancode)), or on to the
\* registration.
PollPop(t) ==
    /\ task.st[t].pc = "poll"
    /\ IF scancodes # <<>>
         THEN /\ scancodes' = Tail(scancodes)
              /\ task' = [task EXCEPT !.out = Append(@, Head(scancodes)),
                                      !.st[t] = Ready(@, Head(scancodes))]
         ELSE /\ task' = [task EXCEPT !.st[t].pc = "register"]
              /\ UNCHANGED scancodes
    /\ UNCHANGED <<schedVars, smpVars, ctxVars, lockVars, ifl, flags, isr, WAKER,
                   tmVars, ringVars, niVars, arcVars>>

\* WAKER.register(&cx.waker()): the waker of the polling task replaces the one
\* registered before.
PollRegister(t) ==
    /\ task.st[t].pc = "register"
    /\ WAKER' = {t}
    /\ task' = [task EXCEPT !.st[t].pc = "recheck"]
    /\ UNCHANGED <<schedVars, smpVars, ctxVars, lockVars, irqVars,
                   tmVars, ringVars, niVars, arcVars>>

\* The second queue.pop(): Some goes on to WAKER.take(), None is Pending.
PollRecheck(t) ==
    /\ task.st[t].pc = "recheck"
    /\ IF scancodes # <<>>
         THEN /\ scancodes' = Tail(scancodes)
              /\ task' = [task EXCEPT !.st[t].pc = "take",
                                      !.held = <<Head(scancodes)>>]
         ELSE /\ task' = [task EXCEPT !.st[t].pc = "pending"]
              /\ UNCHANGED scancodes
    /\ UNCHANGED <<schedVars, smpVars, ctxVars, lockVars, ifl, flags, isr, WAKER,
                   tmVars, ringVars, niVars, arcVars>>

\* WAKER.take(); Poll::Ready(Some(scancode)).
PollTake(t) ==
    /\ task.st[t].pc = "take"
    /\ WAKER' = {}
    /\ task' = [task EXCEPT !.held = <<>>,
                            !.out = @ \o task.held,
                            !.st[t] = Ready(@, Head(task.held))]
    /\ UNCHANGED <<schedVars, smpVars, ctxVars, lockVars, irqVars,
                   tmVars, ringVars, niVars, arcVars>>

\* The steps of the executor and of the task it polls.
KbdTask ==
    \/ \E t \in KbdTaskIds : TaskPoll(t)
    \/ \E t \in KbdTaskIds : PollPop(t)
    \/ \E t \in KbdTaskIds : PollRegister(t)
    \/ \E t \in KbdTaskIds : PollRecheck(t)
    \/ \E t \in KbdTaskIds : PollTake(t)

KbdNext ==
    \/ \E sc \in ScanCodes : AddScancode(sc)
    \/ KbdTask

\* The executor keeps polling the tasks that are ready.
KbdSpec == Init /\ [][KbdNext]_vars /\ WF_vars(KbdTask)

\* ------------------------------------------- KEYBUFFER and its interrupt
\* The history of an operation on the buffer: what a FIFO queue of capacity
\* KEYBUFFER_SIZE - 1 holds after the same operation.
LogPush(c) ==
    [fifo |-> IF Len(ringLog.fifo) < KEYBUFFER_SIZE - 1
                THEN Append(ringLog.fifo, c) ELSE ringLog.fifo,
     last |-> IF Len(ringLog.fifo) < KEYBUFFER_SIZE - 1 THEN "push" ELSE "discard",
     ret |-> {}]

LogPop(ret) ==
    [fifo |-> IF ringLog.fifo = <<>> THEN <<>> ELSE Tail(ringLog.fifo),
     last |-> "pop", ret |-> ret]

\* The RingBuffer alone, behind its mutex: KEYBUFFER.lock().push(c) and
\* KEYBUFFER.lock().pop() in any order.
RbPush(c) ==
    /\ KEYBUFFER' = RingPush(KEYBUFFER, c)
    /\ ringLog' = LogPush(c)
    /\ UNCHANGED <<schedVars, smpVars, ctxVars, lockVars, irqVars,
                   tmVars, kbdVars, niVars, arcVars, keyLock, caller, handler>>

RbPop ==
    /\ LET r == RingPop(KEYBUFFER)
       IN /\ KEYBUFFER' = r.ring
          /\ ringLog' = LogPop(r.ret)
    /\ UNCHANGED <<schedVars, smpVars, ctxVars, lockVars, irqVars,
                   tmVars, kbdVars, niVars, arcVars, keyLock, caller, handler>>

RingNext ==
    \/ \E c \in ScanCodes : RbPush(c)
    \/ RbPop

RingSpec == Init /\ [][RingNext]_vars

\* src/interrupts.rs on one core with interrupts enabled: sshell calls
\* wait_for_keypress, and the keyboard interrupt handler runs on top of it
\* from its entry to its return.
\* The code outside the handler takes a step.
Interrupted(A) == handler.pc = "idle" /\ A

\* wait_for_keypress is called.
WaitCall ==
    /\ caller = "idle"
    /\ caller' = "lock"
    /\ UNCHANGED <<schedVars, smpVars, ctxVars, lockVars, irqVars,
                   tmVars, kbdVars, niVars, arcVars, KEYBUFFER, keyLock, handler, ringLog>>

\* KEYBUFFER.lock() of the if let: the guard lives to the end of the if let.
WaitLock ==
    /\ caller = "lock"
    /\ keyLock = {}
    /\ keyLock' = {"wait_for_keypress"}
    /\ caller' = "pop"
    /\ UNCHANGED <<schedVars, smpVars, ctxVars, lockVars, irqVars,
                   tmVars, kbdVars, niVars, arcVars, KEYBUFFER, handler, ringLog>>

\* .pop() under the guard.
WaitPop ==
    /\ caller = "pop"
    /\ LET r == RingPop(KEYBUFFER)
       IN /\ KEYBUFFER' = r.ring
          /\ ringLog' = LogPop(r.ret)
          /\ caller' = IF r.ret = {} THEN "none" ELSE "some"
    /\ UNCHANGED <<schedVars, smpVars, ctxVars, lockVars, irqVars,
                   tmVars, kbdVars, niVars, arcVars, keyLock, handler>>

\* Some(c): return c, which drops the guard.
WaitReturn ==
    /\ caller = "some"
    /\ keyLock' = {}
    /\ caller' = "idle"
    /\ UNCHANGED <<schedVars, smpVars, ctxVars, lockVars, irqVars,
                   tmVars, kbdVars, niVars, arcVars, KEYBUFFER, handler, ringLog>>

\* None: the if let ends, which drops the guard, and the core halts.
WaitHlt ==
    /\ caller = "none"
    /\ keyLock' = {}
    /\ caller' = "hlt"
    /\ UNCHANGED <<schedVars, smpVars, ctxVars, lockVars, irqVars,
                   tmVars, kbdVars, niVars, arcVars, KEYBUFFER, handler, ringLog>>

\* timer_interrupt_handler: PICS.lock().notify_end_of_interrupt; an
\* interrupted hlt is over.
OldTimerInterrupt ==
    /\ caller = "hlt"
    /\ caller' = "lock"
    /\ UNCHANGED <<schedVars, smpVars, ctxVars, lockVars, irqVars,
                   tmVars, kbdVars, niVars, arcVars, KEYBUFFER, keyLock, handler, ringLog>>

\* The keyboard interrupt: KEYBOARD.lock(), which only this handler takes, the
\* read of port 0x60, add_byte and process_keyevent, which give a character
\* or nothing.
OldKeyboardEntry(scancode) ==
    /\ handler.pc = "idle"
    /\ handler' = IF Unicode(scancode)
                    THEN [pc |-> "keybuffer_lock", character |-> {scancode}]
                    ELSE [pc |-> "eoi", character |-> {}]
    /\ UNCHANGED <<schedVars, smpVars, ctxVars, lockVars, irqVars,
                   tmVars, kbdVars, niVars, arcVars, KEYBUFFER, keyLock, caller, ringLog>>

\* KEYBUFFER.lock().push(character): the spin lock is taken once it is free,
\* and dropped at the end of the statement.
OldKeyboardPush ==
    /\ handler.pc = "keybuffer_lock"
    /\ keyLock = {}
    /\ \E c \in handler.character :
          /\ KEYBUFFER' = RingPush(KEYBUFFER, c)
          /\ ringLog' = LogPush(c)
    /\ handler' = [pc |-> "eoi", character |-> {}]
    /\ UNCHANGED <<schedVars, smpVars, ctxVars, lockVars, irqVars,
                   tmVars, kbdVars, niVars, arcVars, keyLock, caller>>

\* PICS.lock().notify_end_of_interrupt(Keyboard) and the return; an
\* interrupted hlt is over.
OldKeyboardEoi ==
    /\ handler.pc = "eoi"
    /\ handler' = [pc |-> "idle", character |-> {}]
    /\ caller' = IF caller = "hlt" THEN "lock" ELSE caller
    /\ UNCHANGED <<schedVars, smpVars, ctxVars, lockVars, irqVars,
                   tmVars, kbdVars, niVars, arcVars, KEYBUFFER, keyLock, ringLog>>

\* The steps of the keyboard handler once entered.
OldKeyboardStep == OldKeyboardPush \/ OldKeyboardEoi

WaitNext ==
    \/ Interrupted(WaitCall)
    \/ Interrupted(WaitLock)
    \/ Interrupted(WaitPop)
    \/ Interrupted(WaitReturn)
    \/ Interrupted(WaitHlt)
    \/ Interrupted(OldTimerInterrupt)
    \/ \E sc \in ScanCodes : OldKeyboardEntry(sc)
    \/ OldKeyboardStep

\* A handler that can take a step takes it.
WaitSpec == Init /\ [][WaitNext]_vars /\ WF_vars(OldKeyboardStep)

\* ------------------------------------------------------------ no_interrupt
\* Threads that enable interrupts, call no_interrupt(f) with an f that calls
\* no_interrupt again, spawns, joins or exits, and are resumed inside the
\* yield_now of join after the joined thread has exited.  A thread makes
\* NiDepth calls, one inside the other or one after the other.
NiDepth == 2

\* The flags stored by the no_interrupt calls the thread running on core c is
\* inside of.
Frames(c) == IF thread[c] = {} THEN <<>> ELSE ni[Tid(c)]

\* let flags = disable_and_store(): the IF bit of RFLAGS is kept and cli
\* executed; then f is entered.
NiCall(c) ==
    /\ pc[c] = "body"
    /\ thread[c] # {}
    /\ Len(Frames(c)) + Len(niLog[Tid(c)]) < NiDepth
    /\ ni' = [ni EXCEPT ![Tid(c)] = Append(@, ifl[c])]
    /\ ifl' = [ifl EXCEPT ![c] = FALSE]
    /\ UNCHANGED <<schedVars, smpVars, ctxVars, lockVars, flags, isr, scancodes,
                   tmVars, kbdVars, ringVars, niLog, arcVars>>

\* A faulty restore that executes sti whatever the stored flag.
NiReturnSti(c) ==
    /\ pc[c] = "body"
    /\ thread[c] # {}
    /\ Frames(c) # <<>>
    /\ ifl' = [ifl EXCEPT ![c] = TRUE]
    /\ niLog' = [niLog EXCEPT ![Tid(c)] =
                    Append(@, [stored |-> Frames(c)[Len(Frames(c))], left |-> TRUE])]
    /\ ni' = [ni EXCEPT ![Tid(c)] = SubSeq(@, 1, Len(@) - 1)]
    /\ UNCHANGED <<schedVars, smpVars, ctxVars, lockVars, flags, isr, scancodes,
                   tmVars, kbdVars, ringVars, arcVars>>

\* f has returned: restore(flags) executes sti when the stored flag is set.
NiReturn(c) ==
    /\ pc[c] = "body"
    /\ thread[c] # {}
    /\ Frames(c) # <<>>
    /\ LET stored == Frames(c)[Len(Frames(c))]
       IN /\ ifl' = [ifl EXCEPT ![c] = @ \/ stored]
          /\ niLog' = [niLog EXCEPT ![Tid(c)] =
                          Append(@, [stored |-> stored, left |-> ifl[c] \/ stored])]
    /\ ni' = [ni EXCEPT ![Tid(c)] = SubSeq(@, 1, Len(@) - 1)]
    /\ UNCHANGED <<schedVars, smpVars, ctxVars, lockVars, flags, isr, scancodes,
                   tmVars, kbdVars, ringVars, arcVars>>

NiNext ==
    \/ BootSpawn
    \/ \E c \in Cores : Runs(c, RunNext(c))
    \/ \E c \in Cores : Runs(c, Hlt(c))
    \/ \E c \in Cores : Runs(c, YieldNow(c))
    \/ \E c \in Cores : Runs(c, ThreadEntry(c))
    \/ \E c \in Cores : Runs(c, ThreadExit(c, MaxResult))
    \/ \E c \in Cores : Runs(c, Spawn(c))
    \/ \E c \in Cores : \E h \in Tids : Runs(c, JoinCall(c, h))
    \/ \E c \in Cores : Runs(c, JoinTry(c))
    \/ \E c \in Cores : Runs(c, JoinWait(c))
    \/ \E c \in Cores : Runs(c, Frames(c) = <<>> /\ EnableInterrupts(c))
    \/ \E c \in Cores : Runs(c, NiCall(c))
    \/ \E c \in Cores : Runs(c, NiReturn(c))
    \/ \E c \in Cores : Interrupt(c, "Timer")
    \/ \E c \in Cores : TimerInterruptHandler(c)

NiSpec == Init /\ [][NiNext]_vars

\* A switch from context A to context B and back, for any registers of A.
CtxInit ==
    /\ SchedInit(0, {})
    /\ SmpInit
    /\ CtxStart
    /\ LockFree
    /\ IrqOff
    /\ UnitIdle

CtxNext ==
    \/ ASwitchTo
    \/ CtxSave
    \/ CtxLoad
    \/ CtxRet
    \/ \E v \in RegVals : BRun(v)
    \/ BSwitchTo

CtxSpec == CtxInit /\ [][CtxNext]_vars

\* ------------------------------------------------------------- properties
\* The Processors holding t as their running thread.
Holders(t) == {c \in Cores : t \in thread[c]}

Queued(t) == t \in Range(pool.ready)

Live(t) == pool.threads[t].state # "None"

\* C1: a Tid's Context has at most one owner at any instant: no two
\* Processors hold the same Tid as running, a Tid the pool has queued or whose
\* Context the pool holds is held by no Processor, so that run never returns a
\* Tid some Processor holds, and no Tid is queued twice.
C1_OneOwner ==
    \A t \in Tids :
        /\ Cardinality(Holders(t)) <= 1
        /\ (Queued(t) \/ pool.threads[t].ctx) => Holders(t) = {}
        /\ t \in PoolRun(pool).ret => Holders(t) = {}
        /\ Cardinality({i \in DOMAIN pool.ready : pool.ready[i] = t}) <= 1

\* A Processor holds a thread that stop_running handed back to the pool on
\* another core and that run handed out again.
C1_Witness ==
    /\ hist.requeued
    /\ \E t \in Tids : \E c \in Holders(t) :
          /\ hist.bodyRuns[t] >= 2
          /\ \E d \in Cores \ {c} : cur[d] = {t}

\* C2: at every instant every live Tid is in one of the four places: queued
\* Ready, held as the running thread of exactly one Processor, stored as
\* Sleeping, or stored as Exited; and never both queued and running.  This
\* includes the states reached after a running thread called yield_now.
C2_OnePlace ==
    \A t \in Tids :
        Live(t) =>
            /\ Cardinality(Holders(t)) <= 1
            /\ ~(Queued(t) /\ Holders(t) # {})
            /\ \/ Queued(t)
               \/ Holders(t) # {}
               \/ pool.threads[t].state = "Sleeping"
               \/ pool.threads[t].state = "Exited"

\* C3: on a single core the run() calls return the threads in the order they
\* were added, each once: the i-th Tid handed out is the i-th Tid added.
C3_FifoOrder ==
    \A i \in DOMAIN hist.dispatched : hist.dispatched[i] = i

\* Every thread of the scenario has been handed out by run().
C3_Witness == Len(hist.dispatched) = ScenarioThreads

\* C4: round-robin fairness: when a thread is dispatched again, every thread
\* that was Ready and not running at its previous dispatch has been
\* dispatched in between, also when dispatched threads yield.
C4_RoundRobin ==
    \A t \in Tids : hist.overtook[t] = {}

\* C5: a running thread that calls yield_now without having called sleep,
\* park or exit is eventually dispatched again, while every core keeps
\* running its dispatch loop.
C5_YieldReturns ==
    \A t \in Tids : hist.yielded[t] ~> ~hist.yielded[t]

\* C6: join on the handle of t returns only after exit(t, result) was
\* recorded, and the value it returns is the result passed to that exit.
C6_JoinAfterExit ==
    \A t \in Tids : hist.joinRet[t] # {} => hist.exitRec[t] = hist.joinRet[t]

\* A join has returned.
C6_Witness == \E t \in Tids : hist.joinRet[t] # {}

\* C7: try_remove(t) returns None on every call before exit(t, r) is
\* recorded, Some(r) on the first call at or after it, removing the entry,
\* and None on every later call.
C7_TryRemove ==
    \A t \in Tids :
        LET log == hist.tryLog[t]
            before == IF hist.exitAt[t] = {} THEN Len(log)
                      ELSE CHOOSE n \in hist.exitAt[t] : TRUE
        IN /\ \A i \in DOMAIN log :
                  log[i] = IF i = before + 1 THEN hist.exitRec[t] ELSE {}
           /\ Len(log) > before => pool.threads[t].state = "None"

\* try_remove(t) was called before the exit, after it, and once more.
C7_Witness ==
    \E t \in Tids : \E r \in Results : hist.tryLog[t] = <<{}, {r}, {}>>

\* C8: a thread put to sleep with ticks = n > 0 is not returned by run()
\* until n ticks have been observed by the pool since the sleep call or
\* wakeup(tid) has been called: no thread with ticks of its sleep left is
\* queued or would be handed out.
C8_SleepHolds ==
    /\ \A t \in Range(pool.ready) : hist.sleepLeft[t] = 0
    /\ \A t \in PoolRun(pool).ret : hist.sleepLeft[t] = 0

\* A thread whose sleep of MaxSleep ticks the timer ended is queued again.
C8_Witness ==
    \E t \in Tids : /\ <<t, MaxSleep>> \in hist.timerWoke
                     /\ Queued(t)
                     /\ PoolRun(pool).ret = {t}

ScenarioTids == 1..ScenarioThreads

AllExited ==
    /\ pool.next > ScenarioThreads
    /\ \A t \in ScenarioTids : hist.exitRec[t] # {}

AllEntered ==
    /\ bsp.index > NAPs
    /\ \A a \in APs : ap[a].pc = "loop"

\* C10: once every started AP has executed its entry function, exactly NAPs
\* CpuInfo entries are online and the entry of each core index holds the
\* APIC id passed for that index, for every interleaving of the boot
\* processor's start_one_ap calls with the APs' reads of AP_STARTUP.
C10_AllOnline ==
    AllEntered =>
        /\ Cardinality({i \in CpuIds : CPUS[i].online = 1}) = NAPs
        /\ \A i \in APs : CPUS[i].apic_id = ApicIdOf(i)

\* C11: a switch from context A to context B and straight back restores
\* r15, r14, r13, r12, rbx, rbp and rsp to the values A held when it entered
\* ctx_switch, A's saved RawContext equals those values, and A resumes behind
\* its call with the return address popped.
C11_RoundTrip ==
    /\ (ip.at \in {"load", "ret"} /\ ip.old = "B") => rawCtx["A"] = heldRegs
    /\ (ip.at = "ret" /\ ip.new = "A") => cpuRegs = heldRegs
    /\ ip.at # "wild"
    /\ ip.at = "A_resumed" =>
          /\ rawCtx["A"] = heldRegs
          /\ cpuRegs = [heldRegs EXCEPT !.rsp = @ + WordSize]

C11_Witness ==
    /\ ip.at = "A_resumed"
    /\ \A r \in RegNames : cpuRegs[r] = MaxReg
    /\ rawCtx["B"].rbx = 1

\* C12: every add returns a Tid strictly greater than every Tid returned
\* before, hence different from every Tid ever issued, those of threads that
\* exited and were removed by join or detach included.
C12_FreshTid ==
    /\ \A i, j \in DOMAIN hist.issued : i < j => hist.issued[i] < hist.issued[j]
    /\ \A t \in Tids : \A u \in hist.gone[t] : u < t

\* A Tid was handed out after an earlier thread had exited and been removed.
C12_Witness ==
    \E t \in Range(hist.issued) :
        /\ hist.gone[t] # {}
        /\ pool.threads[t].state = "Ready"
        /\ \E u \in hist.gone[t] : hist.exitRec[u] # {}

\* C13: an online flag goes from 0 to 1 at most once and never back; the
\* store is made by the AP that owns the descriptor, after it recorded its
\* apic_id and before it reads the shared pointers; so a descriptor that
\* reads online = 1 already holds its final apic_id.
C13_OnlineOnce ==
    [][\A i \in CpuIds :
         /\ CPUS[i].online = 1 =>
               /\ CPUS'[i].online = 1
               /\ CPUS'[i].apic_id = CPUS[i].apic_id
         /\ (CPUS[i].online = 0 /\ CPUS'[i].online = 1) =>
               /\ i \in APs
               /\ ap[i].pc = "set_online"
               /\ ap'[i].pc = "pool_check"]_vars

\* The AP a takes its step and ends in the hlt loop; nothing else changes.
HaltsAt(a) ==
    /\ ap' = [ap EXCEPT ![a].pc = "halted"]
    /\ UNCHANGED <<schedVars, ctxVars, lockVars, irqVars, AP_STARTUP, GLOBAL_THREAD_POOL_PTR, PROCESSORS_PTR, CPUS, bsp, unitVars>>

\* C14: an AP that finds GLOBAL_THREAD_POOL_PTR or PROCESSORS_PTR null at the
\* corresponding check halts for ever: it dereferences no null pointer,
\* initialises no Processor and never enters the run_next loop, and its halt
\* changes nothing of the other cores, which all stay able to step.
C14_NullHalts ==
    /\ [](\A a \in AllAPs :
            /\ ~ap[a].deref_null
            /\ ap[a].pc = "halted" => ap[a].processor = {}
            /\ ap[a].pc \in {"processor", "loop"} => ap[a].pool
            /\ \A b \in AllAPs :
                  (ap[a].pc = "halted" /\ ap[b].pc = "procs_check") =>
                      ENABLED ApProcsCheck(b))
    /\ [][\A a \in AllAPs :
            /\ (ap[a].pc = "pool_check" /\ ~GLOBAL_THREAD_POOL_PTR /\ ap'[a] # ap[a])
                  => HaltsAt(a)
            /\ (ap[a].pc = "procs_check" /\ ~PROCESSORS_PTR /\ ap'[a] # ap[a])
                  => HaltsAt(a)
            /\ ap[a].pc = "halted" => ap'[a] = ap[a]]_vars

\* An AP started with a null procs_ptr sits in its hlt loop holding an Arc of
\* the pool, the stray core sits in the hlt loop of the pool check, and
\* another AP has entered its dispatch loop.
C14_Witness ==
    /\ \E a \in APs : ap[a].pc = "halted" /\ ap[a].pool
    /\ ap[StrayAP].pc = "halted" /\ ~ap[StrayAP].pool
    /\ \E b \in APs : ap[b].pc = "loop" /\ ap[b].processor # {}

\* C15: Processor.tid() or Processor.yield_now() on a core whose running
\* slot is empty panics at once: the call is possible, it ends in the panic
\* handler, and it makes no context switch and changes neither the
\* Processor nor the ThreadPool.
C15_NoThreadPanics ==
    /\ [](\A c \in Cores :
            (InThread(c) /\ thread[c] = {} /\ pc[c] = "body") => ENABLED YieldNow(c))
    /\ [][\A c \in Cores :
            (InThread(c) /\ thread[c] = {} /\ pc'[c] # pc[c]) =>
                /\ pc' = [pc EXCEPT ![c] = "panic"]
                /\ UNCHANGED <<pool, thread, cur, saved>>]_vars

\* A core panicked in the middle of a thread's code with its slot empty
\* while the thread itself was handed to another core.
C15_Witness ==
    \E c \in Cores :
        /\ pc[c] = "panic"
        /\ InThread(c)
        /\ thread[c] = {}
        /\ \E d \in Cores \ {c} : thread[d] = cur[c]

\* C16: with no thread Ready and waiting, ThreadPool.run returns None and
\* run_next returns as a normal outcome: the core goes on to its hlt, no
\* context switch is made, the running slot stays None and the pool's thread
\* table is unchanged.
C16_IdleRunNext ==
    /\ [](\A c \in Cores :
            /\ pc[c] = "run_next" => thread[c] = {} /\ ENABLED RunNext(c)
            /\ ReadyIdle(pool) = {} => PoolRun(pool) = [pool |-> pool, ret |-> {}])
    /\ [][\A c \in Cores :
            (pc[c] = "run_next" /\ ReadyIdle(pool) = {} /\ pc'[c] # pc[c]) =>
                /\ pc' = [pc EXCEPT ![c] = "hlt"]
                /\ thread'[c] = {}
                /\ UNCHANGED <<pool, thread, cur, saved>>]_vars

\* Core 2 found nothing to run and halts while the only thread, Sleeping, is
\* still in the running slot of core 1, which dispatched it.
C16_Witness ==
    /\ pool.next = 2
    /\ thread[1] = {1}
    /\ pc[1] = "body"
    /\ hist.bodyRuns[1] = 1
    /\ pool.threads[1].state = "Sleeping"
    /\ pc[2] = "hlt"
    /\ thread[2] = {}

\* C17: wakeup(tid) makes a Sleeping thread Ready whatever its wake
\* condition, so that a later run() can return it: the woken thread is in
\* the ready queue, or still in a running slot from which it is filed; and
\* the passing of ticks alone never makes a thread parked with ticks = 0
\* Ready.
C17_WakeupRunnable ==
    [][\A u \in Tids :
         (pool.threads[u].state = "Sleeping" /\ pool'.threads[u].state # "Sleeping") =>
             /\ pool'.threads[u].state \in {"Ready", "Exited"}
             /\ (pool'.threads[u].state = "Ready" /\ pool'.timer.tick = pool.timer.tick) =>
                   \/ u \in Range(pool'.ready)
                   \/ \E c \in Cores : u \in thread'[c]
             /\ pool'.timer.tick # pool.timer.tick =>
                   \E i \in DOMAIN pool.timer.timers : pool.timer.timers[i].data = u]_vars

\* C18: join is live and loses no wakeup: once thread t has recorded its
\* exit, a join() under way on t's handle eventually returns, on every
\* interleaving of the cores.
C18_JoinLive ==
    \A t \in Tids :
        (handle[t] = "joining" /\ hist.exitRec[t] # {}) ~> (handle[t] = "joined")

\* C19: once exit(tid, result) is recorded, run() never returns that tid
\* again on any core: the tid is not queued, it is in a running slot only
\* until the yield_now that follows its exit call, no core takes it into its
\* slot again, and no core reaches the unreachable!() behind that yield_now.
C19_ExitedNeverRuns ==
    /\ [](\A t \in Tids : hist.exitRec[t] # {} =>
            /\ t \notin Range(pool.ready)
            /\ t \notin PoolRun(pool).ret
            /\ \A c \in Cores : t \in thread[c] => pc[c] = "exit_yield")
    /\ [](\A c \in Cores : pc[c] # "unreachable")
    /\ [][\A t \in Tids : \A c \in Cores :
            (hist.exitRec[t] # {} /\ t \notin thread[c]) => t \notin thread'[c]]_vars

\* A thread has exited and yielded, and a core is about to call run() with
\* another thread queued.
C19_Witness ==
    \E t \in Tids :
        /\ hist.exitRec[t] # {}
        /\ saved[t] = "unreachable"
        /\ \A c \in Cores : t \notin thread[c]
        /\ \E c \in Cores : pc[c] = "run_next" /\ PoolRun(pool).ret # {}

\* C20: a running thread that blocks (sleep, park) or exits and gives up the
\* core is handed to ThreadPool.stop, so that the pool holds the Context of
\* every Sleeping thread that no core runs, and a thread that only yields is
\* not passed through stop.
C20_BlockedHandedToStop ==
    \A t \in Tids :
        (pool.threads[t].state = "Sleeping" /\ \A c \in Cores : t \notin thread[c])
            => pool.threads[t].ctx

\* C21: a thread that called park and was unparked by another thread is
\* eventually dispatched again and returns from park, also when the unpark
\* comes between park's pool.sleep(tid, 0) and the switch to the loop.
C21_UnparkResumes ==
    \A t \in Tids : (hist.parked[t] = "unparked") ~> (hist.parked[t] = "no")

\* C22: stop_running is a suspension point: once it has handed the running
\* (tid, context) to the pool the core is in its dispatch loop, so no thread
\* executes on a core while the pool stores its Context.
C22_StopSuspends ==
    \A c \in Cores : InThread(c) => ~pool.threads[Me(c)].ctx

\* C23: a Processor's running slot is None exactly while the core executes
\* its dispatch loop: while a thread's own code executes on a core the slot
\* holds that thread's tid, so tid() and current() return the caller's Tid.
C23_SlotIsRunner ==
    \A c \in Cores : thread[c] = cur[c]

\* C24: a core holds the pool lock only between entering and leaving a
\* ThreadPool call, where the step that leaves the call is always possible; and
\* no step that changes which code a core executes (the switch of run_next to
\* the thread, the switch of yield_now to the loop) is taken by a core that
\* holds the lock before or after it. stop_running stays inside the call until
\* pool.stop returns.
C24_NoSwitchUnderLock ==
    /\ [](\A c \in lock :
            /\ pc[c] \in {"in_run", "in_stop"}
            /\ ENABLED (LockRunRet(c) \/ LockStopRet(c)))
    /\ [][\A c \in Cores : cur'[c] # cur[c] => c \notin lock /\ c \notin lock']_vars

\* A core has switched into a thread, out of run_next, while another core is
\* inside a ThreadPool call.
C24_Witness ==
    \E c \in Cores : \E d \in Cores \ {c} :
        /\ InThread(c)
        /\ thread[c] # {}
        /\ lock = {d}
        /\ pc[d] = "in_run"

\* C25: the steps of an interrupt (its entry and its handler, timer or
\* keyboard) leave the ThreadPool with its tick count, the pool lock, every
\* running slot, the thread each core executes and every saved context
\* unchanged; and a core stops executing a thread only by a step that thread
\* takes itself, outside of any handler, at a call of yield_now.
C25_HandlersKeepScheduling ==
    /\ [][isr' # isr => UNCHANGED <<pool, lock, got, thread, cur, saved>>]_vars
    /\ [][\A c \in Cores :
            (cur[c] # {} /\ cur'[c] # cur[c]) =>
                /\ ~Servicing(c)
                /\ pc[c] \in {"body", "park_yield", "join_yield", "exit_yield"}
                /\ cur'[c] = {}]_vars

\* The keyboard handler has run and returned on a core that still executes the
\* thread it interrupted, which is still in the running slot.
C25_Witness ==
    /\ Len(scancodes) > 0
    /\ \E c \in Cores :
         /\ InThread(c)
         /\ thread[c] = cur[c]
         /\ ifl[c]
         /\ ~Servicing(c)

\* The IPIs of start_one_ap(i, apic_id, ..), in order.
C26_Expected(i) ==
    <<Ipi(i, "INIT", TRUE), Ipi(i, "INIT", FALSE),
      Ipi(i, "STARTUP", FALSE), Ipi(i, "STARTUP", FALSE)>>

\* The IPIs written so far that belong to start_one_ap call i.
C26_Sent(i) == SelectSeq(bsp.icr, LAMBDA m : m.call = i)

\* C26: every step of start_one_ap that writes an IPI is taken with both
\* shared pointers set and AP_STARTUP holding the stack top, cpu id and APIC id
\* of that call; and the IPIs of each call are, in order, INIT assert, INIT
\* de-assert, Startup, Startup, each with the call's APIC id as destination.
C26_PublishedBeforeIpi ==
    /\ [][bsp'.icr # bsp.icr =>
            /\ GLOBAL_THREAD_POOL_PTR /\ PROCESSORS_PTR
            /\ AP_STARTUP.stack_top = StackTopOf(bsp.index)
            /\ AP_STARTUP.cpu_id = bsp.index
            /\ AP_STARTUP.apic_id = ApicIdOf(bsp.index)]_vars
    /\ [](\A i \in APs :
            /\ C26_Sent(i) = SubSeq(C26_Expected(i), 1, Len(C26_Sent(i)))
            /\ \A k \in 1..Len(C26_Sent(i)) : C26_Sent(i)[k].dest = ApicIdOf(i))

\* The second start_one_ap call has sent all four of its IPIs.
C26_Witness == Len(C26_Sent(2)) = 4

\* C27: every AP that has loaded its stack pointer and its cpu id holds the
\* stack top and the index published by the start_one_ap call that targeted
\* it, so no two APs run on the same AP_STACKS slot and no two APs initialise
\* the same Processor slot, for every interleaving of the boot processor's
\* calls with the APs' reads of AP_STARTUP.
C27_OwnSlot ==
    /\ \A a \in APs :
         /\ ap[a].stack_top \in {0, StackTopOf(a)}
         /\ ap[a].cpu_id \in {0, a}
    /\ \A a \in APs : \A b \in APs \ {a} :
         /\ ap[a].stack_top # 0 => ap[a].stack_top # ap[b].stack_top
         /\ ap[a].processor \cap ap[b].processor = {}

\* C28: every call of run_next an AP makes is on a Processor that holds its
\* ProcessorInner and on which no init is under way, and a call that finds no
\* ProcessorInner ends in a panic.
C28_InitBeforeUse ==
    [][\A a \in APs :
         (ap[a].pc = "loop" /\ ap'[a].pc # "loop") =>
             /\ Initialized(ap[a].cpu_id)
             /\ ~InInit(a, ap[a].cpu_id)
             /\ ap'[a].pc # "panic"]_vars

\* C29: the idle halt of a dispatch loop always ends: a core halted in its
\* loop eventually calls run_next again.
C29_IdleEnds ==
    \A c \in Cores : (pc[c] = "hlt") ~> (pc[c] = "run_next")

\* C30: a thread that called std_thread::sleep(d) with d > 0 and is recorded
\* Sleeping has a timed wake condition: the pool's timer holds an event for
\* it, so that the ticks wake it without any explicit wakeup, also after the
\* pool.sleep(tid, 0) of park.
C30_SleepIsTimed ==
    \A t \in Tids : \A d \in hist.slept[t] :
        (d.secs > 0 \/ d.nanos > 0) /\ pool.threads[t].state = "Sleeping" =>
            \E i \in DOMAIN pool.timer.timers : pool.timer.timers[i].data = t

\* C31: a JoinHandle is dropped, and detach(tid) called, only while it is
\* held, never inside or after a join; a join ends only by returning Ok, on a
\* try_remove that returned the exit result and removed it from the pool, so
\* that a further try_remove returns None, and with no detach; and a handle
\* that was joined is never dropped later.
C31_DetachIffDropped ==
    [][\A h \in Tids :
         /\ (handle[h] # "dropped" /\ handle'[h] = "dropped") =>
               /\ handle[h] = "held"
               /\ pool' = PoolDetach(pool, h)
         /\ (handle[h] = "joining" /\ handle'[h] # "joining") =>
               /\ handle'[h] = "joined"
               /\ PoolTryRemove(pool, h).ret # {}
               /\ pool' = PoolTryRemove(pool, h).pool
               /\ PoolTryRemove(pool', h).ret = {}
         /\ handle[h] = "joined" => handle'[h] \in {"joined", "held"}]_vars

\* One handle was joined, with its thread's result returned, and another was
\* dropped with its thread detached.
C31_Witness ==
    \E h \in Tids : \E g \in Tids \ {h} :
        /\ handle[h] = "joined"
        /\ hist.joinRet[h] # {}
        /\ handle[g] = "dropped"

\* The top of the stack of context B: one past the end of its boxed slice.
C32_TopB == StackBaseB + STACK_SIZE

C33_SwitchFrame ==
    /\ [][ip.at = "save" =>
            /\ rawCtx'[ip.old] = cpuRegs
            /\ stackMem' = stackMem]_vars
    /\ [][ip.at \in {"save", "load", "ret"} =>
            rawCtx'[ip.new] = rawCtx[ip.new]]_vars
    /\ [][ip'.at = "save" => rawCtx' = rawCtx]_vars
    /\ [][ip.at = "load" => cpuRegs' = rawCtx[ip.new]]_vars
    /\ [](ip.at = "ret" => cpuRegs = rawCtx[ip.new])

\* The loads of the switch from B back to A are done: the core holds A's
\* saved registers, and B's RawContext holds what B left.
C33_Witness ==
    /\ ip.at = "ret"
    /\ ip.old = "B"
    /\ cpuRegs = rawCtx["A"]
    /\ rawCtx["B"].r12 = MaxReg
    /\ rawCtx["A"].r12 = 1

\* C34: after any sequence of start, stop, tick and pop the pending events are
\* in non-decreasing order of expiry; start puts the new event before every
\* pending event that expires at the same tick or later and behind every one
\* that expires earlier, leaving the others in their order, so that of two
\* pending events with the same expiry the one started later is in front; and
\* pop takes the front event only.
C34_SortedByExpiry ==
    /\ [](\A i, j \in DOMAIN tm.timers :
            i < j => /\ tm.timers[i].time <= tm.timers[j].time
                     /\ tm.timers[i].time = tm.timers[j].time
                            => tm.timers[i].data > tm.timers[j].data)
    /\ [][/\ tmLog'.last = "start" =>
              \E i \in DOMAIN tm'.timers :
                 /\ tm'.timers[i].data = Len(tmLog'.started)
                 /\ tm'.timers[i].time = tm.tick + tmLog'.started[Len(tmLog'.started)].after
                 /\ \A k \in 1..(i - 1) : /\ tm'.timers[k] = tm.timers[k]
                                          /\ tm.timers[k].time < tm'.timers[i].time
                 /\ \A k \in i..Len(tm.timers) : /\ tm'.timers[k + 1] = tm.timers[k]
                                                 /\ tm.timers[k].time >= tm'.timers[i].time
          /\ tmLog'.last = "some" =>
                 /\ tm'.timers = Tail(tm.timers)
                 /\ tmLog'.popped[Len(tmLog'.popped)].data = Head(tm.timers).data]_vars

\* Three events with the same expiry were pending, the one started last in
\* front, and all three were popped at that tick, the last started first.
C34_Witness ==
    /\ Len(tmLog.popped) = 3
    /\ \A i \in 1..3 : /\ tmLog.popped[i].data = 4 - i
                       /\ tmLog.popped[i].tick = 2
    /\ tmLog.started[1].at = 0
    /\ tmLog.started[3].at = 1

\* C35: when the caller pops until None after every tick, an event started
\* with time_after = n >= 1 and not stopped is returned by pop exactly once,
\* at the tick that is the n-th after its start and at no other tick, and it
\* has been returned once the pops that follow that tick are over; pop returns
\* an event only when the front event's expiry is the current tick, and a pop
\* that returns None leaves the timer as it was.
C35_PoppedOnTime ==
    /\ [](\A k \in DOMAIN tmLog.started :
            LET e == tmLog.started[k]
                due == e.at + e.after
                pops == {i \in DOMAIN tmLog.popped : tmLog.popped[i].data = e.data}
            IN (e.after >= 1 /\ e.data \notin tmLog.stopped) =>
                  /\ \A i \in pops : tmLog.popped[i].tick = due
                  /\ Cardinality(pops) <= 1
                  /\ (tm.tick > due \/ (tm.tick = due /\ ~tmLog.drain))
                        => Cardinality(pops) = 1)
    /\ [][/\ tmLog'.last = "some" => Head(tm.timers).time = tm.tick
          /\ tmLog'.last = "none" => tm' = tm]_vars

\* C36: no scancode wakeup is lost.  A poll_next returns Pending only after
\* its second pop found the queue empty with its waker registered; a scancode
\* pushed while a task is Pending and not yet woken wakes that task; the
\* scancodes returned, then the one in hand, then the queued ones are the
\* scancodes pushed successfully, in push order; and every scancode pushed
\* successfully is returned by poll_next in the end, at its place in that
\* order, unless every task has ended.
C36_NoLostWakeup ==
    /\ [](task.out \o task.held \o scancodes = task.accepted)
    /\ [][\A t \in KbdTaskIds :
            /\ (task.st[t].pc # "pending" /\ task'.st[t].pc = "pending")
                  => (scancodes = <<>> /\ WAKER = {t} /\ task.st[t].pc = "recheck")
            /\ (task.st[t].pc = "pending" /\ ~task.st[t].woken
                   /\ task'.accepted # task.accepted)
                  => task'.st[t].woken]_vars
    /\ \A n \in 1..KbdKeys :
          (Len(task.accepted) >= n)
             ~> \/ Len(task.out) >= n /\ task.out[n] = task.accepted[n]
                \/ \A t \in KbdTaskIds : task.st[t].pc = "done"

\* C37: the keyboard interrupt handler of src/interrupts.rs always completes:
\* it is never at KEYBUFFER.lock() while the code it interrupted holds that
\* lock, and once entered it returns.
C37_HandlerCompletes ==
    /\ [](~(handler.pc = "keybuffer_lock" /\ keyLock # {}))
    /\ (handler.pc # "idle") ~> (handler.pc = "idle")

\* C38: no_interrupt(f) runs f with interrupts disabled and leaves the
\* interrupt flag as it was before the call.  A thread inside f runs with IF
\* clear; the call clears IF; the return of a call, nested or not, leaves IF
\* equal to the IF the call found; a thread leaves its core, which
\* std_thread::yield_now does from inside no_interrupt, with IF clear, and
\* the dispatch loop, from which a thread is resumed, runs with IF clear, so
\* that the restore of a resumed thread leaves IF equal to the stored flag.
C38_FlagRestored ==
    /\ [](\A c \in Cores :
            /\ (Frames(c) # <<>> /\ ~Servicing(c)) => ~ifl[c]
            /\ (thread[c] = {} /\ ~Servicing(c)) => ~ifl[c])
    /\ [](\A t \in Tids : \A i \in DOMAIN niLog[t] :
            niLog[t][i].left = niLog[t][i].stored)
    /\ [][\A c \in Cores : \A t \in Tids :
            /\ (thread[c] = {t} /\ Len(ni'[t]) > Len(ni[t]))
                  => (~ifl'[c] /\ ni'[t] = Append(ni[t], ifl[c]))
            /\ (thread[c] = {t} /\ Len(ni'[t]) < Len(ni[t]))
                  => ifl'[c] = ni[t][Len(ni[t])]
            /\ (thread[c] = {t} /\ thread'[c] = {})
                  => (~ifl'[c] /\ flags'[t] = ifl[c])
            /\ (thread[c] = {} /\ thread'[c] = {t} /\ saved[t] # "entry")
                  => ifl'[c] = flags[t]]_vars

\* A thread made a no_interrupt call with interrupts enabled and a nested one
\* inside it, both returned, and it runs with interrupts enabled again; and
\* a thread that had enabled interrupts is inside yield_now, its core in the
\* dispatch loop with interrupts disabled.
C38_Witness ==
    \E c, d \in Cores : \E t, u \in Tids :
        /\ thread[c] = {t}
        /\ niLog[t] = <<[stored |-> FALSE, left |-> FALSE],
                        [stored |-> TRUE, left |-> TRUE]>>
        /\ ifl[c]
        /\ thread[d] = {}
        /\ saved[u] # "entry"
        /\ flags[u]
        /\ ~ifl[d]

\* C39: once start_one_ap has published the pointer, the ThreadPool's strong
\* count is never zero: it counts at least main's reference, the references
\* start_one_ap gave away through Arc::into_raw and one more for every AP that
\* adopted the pointer; no step of an AP lowers it except an init that
\* replaces the reference a Processor already held by a new one.
C39_PoolKept ==
    /\ [](GLOBAL_THREAD_POOL_PTR =>
            /\ arc.raw >= 1
            /\ arc.strong >= 1 + arc.raw + Cardinality({a \in AllAPs : ap[a].pool}))
    /\ [][/\ arc'.strong < arc.strong =>
              /\ arc'.strong = arc.strong - 1
              /\ bsp'.index = bsp.index + 1
          /\ \A a \in AllAPs :
               (ap'[a].pool /\ ~ap[a].pool) => arc'.strong = arc.strong + 1
          /\ arc'.raw > arc.raw => arc'.strong = arc.strong + 2]_vars

\* Every AP has adopted the pointer and initialised a Processor, two of them
\* the same one, and main is through with its start_one_ap calls.
C39_Witness ==
    /\ bsp.index > bsp.last
    /\ \A a \in APs : ap[a].pool /\ ap[a].pc = "loop"
    /\ \E a, b \in APs : a # b /\ ap[a].processor = ap[b].processor
    /\ arc.raw = NAPs
    /\ arc.strong = 1 + NAPs + NAPs + (NAPs - 1)

====
